---- MODULE Spec2Model ----
(***************************************************************************)
(* BIP-129 Bitcoin Secure Multisig Setup (BSMS) engine of shared/bsms.py:  *)
(* tokens, envelope, round-1 / round-2 messages, coordinator and signer    *)
(* rounds, persisted sessions.                                             *)
(*                                                                         *)
(* Texts are sequences of lines; the version line is a sequence of         *)
(* characters so that startswith() is a real prefix test.  Cryptographic   *)
(* primitives are symbolic terms: a hash, a MAC, a ciphertext or a         *)
(* signature is the record of what it was computed from, so two of them    *)
(* are equal exactly when their inputs are (no collisions), and using the  *)
(* wrong key yields Garbage.                                               *)
(***************************************************************************)
EXTENDS Integers, Sequences, FiniteSets, TLC

VARIABLES
    bsms,      \* device -> the object stored under settings key "bsms"
    sr1,       \* signer -> the round-1 output the signer emitted last (or None)
    cr2,       \* the round-2 outputs the coordinator emitted last, one per token
    wallets,   \* signer -> the multisig wallet enrolled by signer round 2 (or None)
    last       \* the most recent handler run: its inputs and how far it got

vars == <<bsms, sr1, cr2, wallets, last>>

----------------------------------------------------------------------------
(* Bounds of the model *)

\* largest number of signers N of a modelled setup (the code allows 2..15)
MaxN == 2

----------------------------------------------------------------------------
(* Python values *)

\* None, as a value comparable with the records it stands in for
None == [none |-> TRUE]
\* the empty str (a text of no lines)
EmptyStr == <<>>
\* bytes without structure, as a decryption under the wrong key or IV leaves them
Garbage == << <<"?">> >>

StartsWith(s, p) ==
    /\ Len(s) >= Len(p)
    /\ SubSeq(s, 1, Len(p)) = p

\* str.startswith on a text of lines: the prefixes used never hold a newline
TextStartsWith(text, p) ==
    /\ Len(text) >= 1
    /\ StartsWith(text[1], p)

RECURSIVE Insert(_, _)
Insert(x, s) ==
    IF s = <<>> THEN <<x>>
    ELSE IF x <= Head(s) THEN <<x>> \o s
    ELSE <<Head(s)>> \o Insert(x, Tail(s))

\* list.sort() of integers (pubkey bytes compared lexicographically)
RECURSIVE SortInts(_)
SortInts(s) ==
    IF s = <<>> THEN <<>> ELSE Insert(Head(s), SortInts(Tail(s)))

Range(s) == {s[i] : i \in DOMAIN s}

----------------------------------------------------------------------------
(* Module constants of bsms.py and of its imports *)

BSMS_VERSION == <<"B", "S", "M", "S", " ", "1", ".", "0">>
BSMS_MAGIC == <<"B", "S", "M", "S">>
ALLOWED_PATH_RESTRICTIONS == "/0/*,/1/*"

AF_P2WSH == "p2wsh"
AF_P2WSH_P2SH == "p2sh-p2wsh"
MAX_SIGNERS == 15

\* "%spub" % chain.slip132[AF_CLASSIC].hint of the current chain
ext_key_prefix == "tpub"

----------------------------------------------------------------------------
(* Tokens *)

\* A token string: the characters pre (a prefix, usually none) followed by n
\* further characters that are all hex digits, or not (hex); id tells tokens
\* of one shape apart.
Tok(n, id) == [pre |-> <<>>, n |-> n, id |-> id, hex |-> TRUE]
\* the sentinel "00"
T00 == [pre |-> <<>>, n |-> 2, id |-> 0, hex |-> TRUE]

TokLen(t) == Len(t.pre) + t.n

normalize_token(token_hex) ==
    IF Len(token_hex.pre) >= 2
       /\ SubSeq(token_hex.pre, 1, 2) \in {<<"0", "x">>, <<"0", "X">>}
    THEN [token_hex EXCEPT !.pre = SubSeq(@, 3, Len(@))]
    ELSE token_hex

\* int(token_hex, 16) does not raise: hex digits, after an optional sign or
\* base prefix
IntBase16Parses(t) ==
    /\ t.hex
    /\ t.n > 0
    /\ t.pre \in {<<>>, <<"0", "x">>, <<"0", "X">>, <<"+">>, <<"-">>}

\* validate_token(token_hex) returns without raising
validate_token(token_hex) ==
    \/ token_hex = T00
    \/ /\ IntBase16Parses(token_hex)
       /\ TokLen(token_hex) \in {16, 32}

\* a2b_hex(token_hex) raises: a character that is no hex digit, or an odd length
TokenUnhexRaises(t) == t.pre # <<>> \/ ~t.hex \/ t.n % 2 = 1

\* token[:4], the part shown to the user and put into file names
Tok4(t) == [t4 |-> <<t.pre, t.id>>]

\* a key derivation without the early return for the sentinel
key_derivation_function_of_any(token_hex) == [kdf |-> <<token_hex.n, token_hex.id>>]

\* PBKDF2-HMAC-SHA512("No SPOF", hex-decoded token, 2048)[:32]
key_derivation_function(token_hex) ==
    IF token_hex = T00 THEN None ELSE [kdf |-> <<token_hex.n, token_hex.id>>]

hmac_key(key) == [sha256 |-> key]

msg_auth_code(key, token_hex, data) == [hmac |-> key, msg |-> <<token_hex, data>>]

----------------------------------------------------------------------------
(* Envelope *)

\* mac[:16]: the first half of the 32 bytes; a mac with the field tail stands
\* for the same bytes with the second half altered
IvOf(mac) == [iv16 |-> [k \in DOMAIN mac \ {"tail"} |-> mac[k]]]

\* ngu.aes.CTR(key, iv).cipher(data): encrypting
CtrEncrypt(key, iv, data) == [k |-> key, iv |-> iv, x |-> data]

\* ngu.aes.CTR(key, iv).cipher(ciphertext): decrypting; the key stream of
\* another key or IV leaves bytes without structure
CtrDecrypt(key, iv, ct) ==
    IF ct.k = key /\ ct.iv = iv THEN ct.x ELSE Garbage

\* an encryption whose counter starts from the key and not from the mac
bsms_encrypt_key_iv(key, token_hex, data_str) ==
    LET hmac_k == hmac_key(key)
        mac == msg_auth_code(hmac_k, token_hex, data_str)
    IN  [mac |-> mac, ct |-> CtrEncrypt(key, IvOf(hmac_k), data_str)]

\* mac + ciphertext, the counter starting from the first 16 bytes of the mac
bsms_encrypt(key, token_hex, data_str) ==
    LET hmac_k == hmac_key(key)
        mac == msg_auth_code(hmac_k, token_hex, data_str)
        iv == IvOf(mac)
    IN  [mac |-> mac, ct |-> CtrEncrypt(key, iv, data_str)]

\* What a file or an NFC message holds: a plain text [text |-> lines] or an
\* envelope [mac |-> .., ct |-> ..].
PlainBlob(text) == [text |-> text]
IsEnvelope(blob) == DOMAIN blob = {"mac", "ct"}

\* a blob read as text ('rt'); the bytes of an envelope are no BSMS text
BlobText(blob) == IF IsEnvelope(blob) THEN Garbage ELSE blob.text

\* bsms_decrypt without the test for the BSMS prefix
bsms_decrypt_unchecked(key, data_bytes) ==
    IF ~IsEnvelope(data_bytes) THEN EmptyStr
    ELSE CtrDecrypt(key, IvOf(data_bytes.mac), data_bytes.ct)

\* a decryption that accepts only when the leading 32 bytes are the HMAC,
\* under the key, of a token and the decrypted text
bsms_decrypt_verifying(key, data_bytes) ==
    IF ~IsEnvelope(data_bytes) THEN EmptyStr
    ELSE LET mac == data_bytes.mac
             decrypted == CtrDecrypt(key, IvOf(mac), data_bytes.ct)
         IN  IF /\ TextStartsWith(decrypted, BSMS_MAGIC)
                /\ mac = msg_auth_code(hmac_key(key), mac.msg[1], decrypted)
             THEN decrypted ELSE EmptyStr

\* returns "" when the decrypted bytes do not decode or do not start with BSMS
bsms_decrypt(key, data_bytes) ==
    IF ~IsEnvelope(data_bytes) THEN EmptyStr
    ELSE LET mac == data_bytes.mac
             ciphertext == data_bytes.ct
             iv == IvOf(mac)
             decrypted == CtrDecrypt(key, iv, ciphertext)
         IN  IF TextStartsWith(decrypted, BSMS_MAGIC) THEN decrypted ELSE EmptyStr

----------------------------------------------------------------------------
(* Keys, nodes and signatures (ngu.hdnode, ngu.secp256k1, chains, stash) *)

\* A derivation path string: with or without the leading "m", the purpose
\* (129' or 48'), the account and the script suffix of the 48' paths.
Path(purpose, acct, script) == [m |-> TRUE, purpose |-> purpose, acct |-> acct, script |-> script]

\* dd[1:]: the path without its "m"
StripM(path) == [path EXCEPT !.m = FALSE]
\* "m" + koi[8:]
PrependM(path) == [path EXCEPT !.m = TRUE]

PathNum(path) ==
    (IF path.purpose = 129 THEN 0 ELSE path.script) + 3 * path.acct

\* A device is a number, and its master fingerprint is that number.
\* xfp2str of a master fingerprint, and str2xfp back
xfp2str(xfp) == [xfpstr |-> xfp]
str2xfp(s) == s.xfpstr
MasterXfp(dev) == dev

\* A node is its public key (an integer, so that keys sort) and its depth
\* below the node an extended key was made from.
NodePk(dev, path) == dev * 6 + PathNum(path)

\* sv.derive_path(path) on device dev; the path must start at the master
derive_path(dev, path) == [pk |-> NodePk(dev, path), child |-> 0]

\* node.derive(i, False): an injective map without regard to the order of keys
derive(node, i) == [pk |-> (node.pk * 7 + 3 + i) % 31, child |-> node.child + 1]

\* chain.serialize_public(node): base58check text with the chain's prefix
serialize_public(node) == [pfx |-> ext_key_prefix, pk |-> node.pk, ok |-> TRUE]

\* HDNode().deserialize(ext_key): fails on text that does not decode
CanDeserialize(ext_key) == ext_key.ok
deserialize(ext_key) == [pk |-> ext_key.pk, child |-> 0]

\* chain.hash_message(msg.encode())
hash_message(msg) == [h |-> msg]

\* ngu.secp256k1.sign(sk, digest, 0) with the private key of node
sign(node, digest) == [by |-> node.pk, dg |-> digest]

\* b2a_base64(sig).decode().strip() and a2b_base64 back
b2a_base64(sig_bytes) == [b64 |-> sig_bytes]
a2b_base64(sig) == sig.b64

\* chains.verify_recover_pubkey(sig, digest): the key recovered for another
\* digest than the signed one is an unrelated key
UnrelatedPk == 0 - 1
verify_recover_pubkey(sig_bytes, digest) ==
    IF sig_bytes.dg = digest THEN sig_bytes.by ELSE UnrelatedPk

\* multisig.make_redeem_script(M, nodes, idx): sorted-multisig over the
\* public keys of the nodes at index idx
make_redeem_script(M, nodes, idx) ==
    [M |-> M, pks |-> SortInts([i \in DOMAIN nodes |-> derive(nodes[i], idx).pk])]

\* chain.p2sh_address(addr_fmt, script)
p2sh_address(addr_fmt, script) == [af |-> addr_fmt, script |-> script]

----------------------------------------------------------------------------
(* Descriptors (descriptor.py) *)

\* A descriptor text: wrapper, script function, M, the key expressions
\* "[xfp/deriv]ext/wild" in their order, and the "#checksum" (None without).
\* The wildcard after a key is kept as its pieces, so that str.replace acts on it.
WILD_INT_EXT == <<"/", "<0;1>", "/", "*">>
WILD_TEMPLATE == <<"/", "*", "*">>
WILD_EXTERNAL == <<"/", "0", "/", "*">>

\* str.replace(old, new) on a sequence of pieces
RECURSIVE SeqReplace(_, _, _)
SeqReplace(s, old, new) ==
    IF Len(s) < Len(old) THEN s
    ELSE IF SubSeq(s, 1, Len(old)) = old
         THEN new \o SeqReplace(SubSeq(s, Len(old) + 1, Len(s)), old, new)
         ELSE <<Head(s)>> \o SeqReplace(Tail(s), old, new)

DescChecksum(desc) == [of |-> [desc EXCEPT !.csum = None]]

append_checksum(desc) == [desc EXCEPT !.csum = DescChecksum(desc)]

\* MultisigDescriptor(M, N, keys, addr_fmt)._serialize(int_ext=True):
\* keys are (xfp string, "m/..." derivation, extended key); no checksum
DescSerializeIntExt(M, N, keys, addr_fmt) ==
    [wrap |-> IF addr_fmt = AF_P2WSH THEN "wsh" ELSE "sh(wsh",
     fn |-> "sortedmulti",
     M |-> M,
     keys |-> [i \in DOMAIN keys |->
                 [xfp |-> keys[i].xfp, deriv |-> StripM(keys[i].deriv),
                  ext |-> keys[i].ext, wild |-> WILD_INT_EXT]],
     csum |-> None]

\* desc.replace(old, new) for the wildcard markers, which occur after keys only
DescReplace(desc, old, new) ==
    [desc EXCEPT !.keys = [i \in DOMAIN desc.keys |->
        [desc.keys[i] EXCEPT !.wild = SeqReplace(desc.keys[i].wild, old, new)]]]

\* MultisigDescriptor.parse raises unless the text is a checksummed
\* sortedmulti inside wsh or sh(wsh, with 1 <= M <= N <= MAX_SIGNERS and
\* every key followed by an allowed wildcard
DescParseOk(desc) ==
    /\ desc.csum = DescChecksum(desc)
    /\ desc.fn = "sortedmulti"
    /\ desc.wrap \in {"wsh", "sh(wsh"}
    /\ 1 <= desc.M /\ desc.M <= Len(desc.keys) /\ Len(desc.keys) <= MAX_SIGNERS
    /\ \A i \in DOMAIN desc.keys : desc.keys[i].wild \in {WILD_EXTERNAL, WILD_INT_EXT}

\* the MultisigDescriptor object parse returns
DescParse(desc) ==
    [M |-> desc.M,
     N |-> Len(desc.keys),
     keys |-> [i \in DOMAIN desc.keys |->
                 [xfp |-> str2xfp(desc.keys[i].xfp), deriv |-> PrependM(desc.keys[i].deriv),
                  ext |-> desc.keys[i].ext]],
     addr_fmt |-> IF desc.wrap = "wsh" THEN AF_P2WSH ELSE AF_P2WSH_P2SH]

\* MultisigDescriptor.parse_key_orig_info(key_exp): (koi, ext_key) of "[koi]ext_key"
parse_key_orig_info(key_exp) == [koi |-> [xfp |-> key_exp.xfp, deriv |-> key_exp.deriv], ext |-> key_exp.ext]

----------------------------------------------------------------------------
(* Message framing *)

\* "[%s%s]%s" % (xfp, dd[1:], ext_key)
KeyExp(xfp, dd, ext_key) == [xfp |-> xfp, deriv |-> StripM(dd), ext |-> ext_key]

\* the four lines without signature
signer_data_round1_unsigned(token_hex, desc_type_key, key_description) ==
    <<BSMS_VERSION, token_hex, desc_type_key, key_description>>

\* the five lines, the signature in base64 last
signer_data_round1(token_hex, desc_type_key, key_description, sig_bytes) ==
    signer_data_round1_unsigned(token_hex, desc_type_key, key_description)
        \o <<b2a_base64(sig_bytes)>>

coordinator_data_round2(desc_template, addr) ==
    <<BSMS_VERSION, desc_template, ALLOWED_PATH_RESTRICTIONS, addr>>

----------------------------------------------------------------------------
(* Devices *)

\* the device that runs the coordinator rounds
Coordinator == 0
\* the devices that run the signer rounds; device d has master fingerprint d
Signers == 1 .. MaxN
\* a master secret outside the setup
Foreign == MaxN + 1
Devices == {Coordinator} \cup Signers

----------------------------------------------------------------------------
(* Persisted sessions: class BSMSSettings *)

BSMS_SIGNER_SETTINGS == "s"
BSMS_COORD_SETTINGS == "c"

\* settings.get("bsms", {}).get(who, [])
BsmsList(d, who) == IF who \in DOMAIN d THEN d[who] ELSE <<>>

get_signers(dev) == BsmsList(bsms[dev], BSMS_SIGNER_SETTINGS)
get_coordinators(dev) == BsmsList(bsms[dev], BSMS_COORD_SETTINGS)

\* list.pop(index) for an index inside the list (indices count from 1 here)
ListPop(l, index) == SubSeq(l, 1, index - 1) \o SubSeq(l, index + 1, Len(l))

\* an add that puts the new session before the stored ones
BsmsAddFirst(d, who, value) ==
    IF who \in DOMAIN d THEN [d EXCEPT ![who] = <<value>> \o @]
    ELSE (who :> <<value>>) @@ d

\* BSMSSettings.add with a save that succeeds
BsmsAdd(d, who, value) ==
    IF who \in DOMAIN d THEN [d EXCEPT ![who] = Append(@, value)]
    ELSE (who :> <<value>>) @@ d

\* BSMSSettings.delete with a save that succeeds; IndexError is swallowed
BsmsDelete(d, who, index) ==
    IF who \in DOMAIN d /\ index \in 1 .. Len(d[who])
    THEN [d EXCEPT ![who] = ListPop(@, index)]
    ELSE d

----------------------------------------------------------------------------
(* Files and NFC messages *)

\* A file name: the pattern it starts with, the token prefix it holds (None
\* without) and its extension.
FileName(base, tok4, suffix) == [base |-> base, tok4 |-> tok4, suffix |-> suffix]
\* stands for the name of what was shared over NFC and is no file
NfcName == FileName("nfc", None, "")

File(name, blob) == [name |-> name, blob |-> blob]

----------------------------------------------------------------------------
(* The wrapper of the four rounds: exceptions_handler *)

\* " ".join(f.__name__.split("_")).replace("bsms", "BSMS"), for the round op
nice_name(op) == <<"BSMS", op>>

\* a wrapper that catches nothing
exceptions_handler_uncaught(op, raised, e) == [stories |-> <<>>, propagated |-> raised]

\* What the wrapper adds to a run of round op that raised e or returned: the
\* stories it shows, and whether an exception leaves it.
exceptions_handler(op, raised, e) ==
    [stories |-> IF raised
                 THEN <<[title |-> "FAILURE", round |-> nice_name(op), error |-> e]>>
                 ELSE <<>>,
     propagated |-> FALSE]

\* The outcomes of each round that are an exception leaving its body; the
\* other outcomes are a return, also after an error the round has caught
\* itself (a failed write, a missing card, a failed import).
SignerR1Raised(res) == res \in {"invalid_token", "description", "unhex"}
CoordR1Raised(res) == res \in {"bad_N", "bad_M"}
\* token_key_map[token] raises inside the try of the file export and outside
\* any try in the NFC export
CoordR2Raised(res, export) ==
    \/ res \in {"index", "version", "split", "token", "key_prefix", "key_decode", "signature"}
    \/ res = "key_error" /\ export = "3"
SignerR2Raised(res) == res # "enrol"

----------------------------------------------------------------------------
(* Signer round 2: bsms_signer_round2 *)

\* the payload as text: decrypted under the session token unless it is "00";
\* "" when decryption fails
SignerR2Text(token, blob) ==
    IF token # T00 THEN bsms_decrypt(key_derivation_function(token), blob)
    ELSE BlobText(blob)

VersionOk(data) == TextStartsWith(data, BSMS_VERSION)

\* a test of the path restrictions that lets every line pass
PathRestrictionsAny(pth_restrictions) == TRUE

\* assert pth_restrictions == ALLOWED_PATH_RESTRICTIONS
PathRestrictionsOk(pth_restrictions) == pth_restrictions = ALLOWED_PATH_RESTRICTIONS

\* SignerR2Desc without the replacement of the wildcard
SignerR2DescNoReplace(desc_template) ==
    IF desc_template.csum = None THEN append_checksum(desc_template) ELSE desc_template

\* desc_template.replace("/**", "/0/*"), and a checksum appended if there is none
SignerR2Desc(desc_template) ==
    LET desc == DescReplace(desc_template, WILD_TEMPLATE, WILD_EXTERNAL)
    IN  IF desc.csum = None THEN append_checksum(desc) ELSE desc

ExtKeyPrefixOk(ext_key) == ext_key.pfx = ext_key_prefix

\* the entries of the descriptor listed under the device's master fingerprint
MyKeys(dev, keys) == SelectSeq(keys, LAMBDA k : k.xfp = MasterXfp(dev))

\* the self-location asserts with a bound that lets two entries pass
NotDuplicateSelfLoose(num_my_keys) == num_my_keys <= 2
NotDuplicateSelf(num_my_keys) == num_my_keys <= 1
NotSelfMissing(num_my_keys) == num_my_keys = 1

\* OwnKeyMatches comparing the public key only after the derivation is skipped
OwnKeyUnchecked(dev, deriv_path, desc_ext_key) == CanDeserialize(desc_ext_key)

\* the own key derived again at the path the descriptor gives equals the listed one
OwnKeyMatches(dev, deriv_path, desc_ext_key) ==
    serialize_public(derive_path(dev, deriv_path)) = desc_ext_key

\* FirstAddress over the first M keys only
FirstAddressOfM(M, addr_fmt, exts) ==
    LET nodes == [i \in 1 .. (IF M < Len(exts) THEN M ELSE Len(exts)) |->
                    derive(deserialize(exts[i]), 0)]
    IN  p2sh_address(addr_fmt, make_redeem_script(M, nodes, 0))

\* the first receive address of the descriptor: every node at external index 0
FirstAddress(M, addr_fmt, exts) ==
    LET nodes == [i \in DOMAIN exts |-> derive(deserialize(exts[i]), 0)]
    IN  p2sh_address(addr_fmt, make_redeem_script(M, nodes, 0))

\* the address comparison on the address format only
AddressFormatMatches(calc_addr, addr) == calc_addr.af = addr.af
\* the address comparison left out
AddressNeverFails(calc_addr, addr) == TRUE
AddressMatches(calc_addr, addr) == calc_addr = addr

\* The checks of lines 899-955 in their order.  res is the check that failed,
\* or "enrol" when all passed; sv tells whether the master secret was used.
SignerR2Validate(dev, data) ==
    LET Fail(stage, sv, calc) ==
            [res |-> stage, sv |-> sv, calc_addr |-> calc, desc |-> None, keys |-> <<>>]
    IN
    IF data = EmptyStr THEN Fail("decrypt", FALSE, None)
    ELSE IF ~VersionOk(data) THEN Fail("version", FALSE, None)
    ELSE IF Len(data) # 4 THEN Fail("split", FALSE, None)
    ELSE IF ~PathRestrictionsOk(data[3]) THEN Fail("path_restrictions", FALSE, None)
    ELSE IF ~DescParseOk(SignerR2Desc(data[2])) THEN Fail("descriptor", FALSE, None)
    ELSE
    LET desc == SignerR2Desc(data[2])
        desc_obj == DescParse(desc)
        keys == desc_obj.keys
        bad == {i \in DOMAIN keys :
                  ~ExtKeyPrefixOk(keys[i].ext) \/ ~CanDeserialize(keys[i].ext)}
        first_bad == CHOOSE i \in bad : \A j \in bad : i <= j
        my_keys == MyKeys(dev, keys)
        num_my_keys == Len(my_keys)
        calc_addr == FirstAddress(desc_obj.M, desc_obj.addr_fmt,
                                  [i \in DOMAIN keys |-> keys[i].ext])
    IN
    IF bad # {} THEN
        Fail(IF ~ExtKeyPrefixOk(keys[first_bad].ext) THEN "key_prefix" ELSE "key_decode",
             FALSE, None)
    ELSE IF ~NotDuplicateSelf(num_my_keys) THEN Fail("duplicate_self", FALSE, None)
    ELSE IF ~NotSelfMissing(num_my_keys) THEN Fail("self_missing", FALSE, None)
    ELSE IF ~OwnKeyMatches(dev, my_keys[1].deriv, my_keys[1].ext)
         THEN Fail("own_key", TRUE, None)
    ELSE IF ~AddressMatches(calc_addr, data[4]) THEN Fail("address_mismatch", TRUE, calc_addr)
    ELSE [res |-> "enrol", sv |-> TRUE, calc_addr |-> calc_addr, desc |-> desc, keys |-> keys]

\* what maybe_enroll_xpub(config=desc, ...) stores when the import is approved,
\* with what the round verified on the way: the address line of the payload
\* (claimed), the address computed (addr) and the set of descriptor keys
WalletOf(run, data) ==
    [config |-> run.desc, claimed |-> data[4], addr |-> run.calc_addr,
     keys |-> {run.keys[i].ext : i \in DOMAIN run.keys}]

\* whether a run of signer round 2 that ended res removes its session unasked
SignerR2ConsumesUnapproved(res, enrol_ok) == res = "enrol"

\* whether a run of signer round 2 that ended res has its session removed:
\* the round itself removes nothing, the enrolment does once it is approved
SignerR2Consumes(res, enrol_ok) == res = "enrol" /\ enrol_ok

\* One run of signer round 2 on device dev from menu entry index, given the
\* blob the user supplies (NFC or file) and the answer of the enrolment.
SignerRound2(dev, index, blob, enrol_ok) ==
    /\ index \in DOMAIN get_signers(dev)
    /\ LET token == get_signers(dev)[index]
           data == SignerR2Text(token, blob)
           run == SignerR2Validate(dev, data)
           enrolled == run.res = "enrol" /\ enrol_ok
       IN  /\ last' = [op |-> "signer_round2", dev |-> dev, index |-> index,
                       token |-> token, blob |-> blob, run |-> run,
                       enrolled |-> enrolled,
                       shown |-> exceptions_handler("signer_round2",
                                                    SignerR2Raised(run.res), run.res)]
           /\ IF enrolled
              THEN wallets' = [wallets EXCEPT ![dev] = WalletOf(run, data)]
              ELSE UNCHANGED wallets
           /\ IF SignerR2Consumes(run.res, enrol_ok)
              THEN bsms' = [bsms EXCEPT ![dev] = BsmsDelete(@, BSMS_SIGNER_SETTINGS, index)]
              ELSE UNCHANGED bsms
    /\ UNCHANGED <<sr1, cr2>>

----------------------------------------------------------------------------
(* Signer round 1: bsms_signer_round1 *)

\* pth_template for the answer to the address-format question
\* ('y': unknown, '1': P2WSH, '2': P2SH-P2WSH), with the account number
PathTemplate(ch, acct_num) ==
    CASE ch = "y" -> Path(129, acct_num, 0)
      [] ch = "1" -> Path(48, acct_num, 2)
      [] ch = "2" -> Path(48, acct_num, 1)

\* "ColdCard signer%s account %d"
DefaultDescription(ch, acct_num) == [len |-> 30, txt |-> <<"ColdCard signer", ch, acct_num>>]

\* a limit of the description that is one character too long
DescriptionOkUpTo81(key_description) == key_description.len <= 81

\* assert key_description_len <= 80
DescriptionOk(key_description) == key_description.len <= 80

\* lines 787-805: derive the key, sign the four lines, append the signature,
\* and encrypt the five lines unless the token is "00"
SignerR1Data(dev, token_hex, dd, key_description) ==
    LET node == derive_path(dev, dd)
        ext_key == serialize_public(node)
        desc_type_key == KeyExp(xfp2str(MasterXfp(dev)), dd, ext_key)
        msg == signer_data_round1_unsigned(token_hex, desc_type_key, key_description)
        digest == hash_message(msg)
        sig == sign(node, digest)
        result_data == signer_data_round1(token_hex, desc_type_key, key_description, sig)
        encryption_key == key_derivation_function(token_hex)
    IN  IF encryption_key # None
        THEN bsms_encrypt(encryption_key, token_hex, result_data)
        ELSE PlainBlob(result_data)

\* lines 807-846: the name the output goes under; an NFC share leaves no file
SignerR1File(dev, token_hex, ch, acct_num, key_description, export) ==
    LET data == SignerR1Data(dev, token_hex, PathTemplate(ch, acct_num), key_description)
        is_extended == TokLen(token_hex) = 32
        f_pattern == FileName("bsms_sr1",
                              IF is_extended THEN Tok4(token_hex) ELSE None,
                              IF key_derivation_function(token_hex) = None THEN ".txt" ELSE ".dat")
    IN  File(IF export = "3" THEN NfcName ELSE f_pattern, data)

\* round 1 that also keeps the session when the file could not be written
SignerR1PersistsUnwritten(res) == res \in {"saved", "write_failed"}
\* round 1 that keeps the session whenever the token was accepted
SignerR1PersistsAccepted(res) == res # "invalid_token"
\* BSMSSettings.signer_add(token_hex) is the last step but the closing story:
\* it is reached only by a run that returned or raised nowhere before
SignerR1Persists(res) == res = "saved"

\* One run of signer round 1.  in: token_in the token as read or typed, ok
\* the answer to "Is token correct?", ch the address-format answer, acct_num,
\* custom a typed description or None, export the export answer ('1' SD,
\* '2' virtual disk, '3' NFC, 'x'), write_ok whether the file write succeeds.
\* last keeps the key description the run came to check (None when it ended
\* before) and whether it went on to derive the key and sign.
SignerRound1(dev, token_in, ok, ch, acct_num, custom, export, write_ok) ==
    LET token_hex == normalize_token(token_in)
        key_description == IF custom = None THEN DefaultDescription(ch, acct_num) ELSE custom
        res == IF ~validate_token(token_in) THEN "invalid_token"
               ELSE IF ok # "y" THEN "cancel"
               ELSE IF ch \notin {"y", "1", "2"} THEN "cancel"
               ELSE IF ~DescriptionOk(key_description) THEN "description"
               ELSE IF token_hex # T00 /\ TokenUnhexRaises(token_hex) THEN "unhex"
               ELSE IF export \notin {"1", "2", "3"} THEN "cancel"
               ELSE IF export # "3" /\ ~write_ok THEN "write_failed"
               ELSE "saved"
        described == validate_token(token_in) /\ ok = "y" /\ ch \in {"y", "1", "2"}
    IN  /\ last' = [op |-> "signer_round1", dev |-> dev, token_in |-> token_in, res |-> res,
                    desc |-> IF described THEN key_description ELSE None,
                    derived |-> described /\ DescriptionOk(key_description),
                    shown |-> exceptions_handler("signer_round1", SignerR1Raised(res), res)]
        /\ IF res = "saved"
           THEN sr1' = [sr1 EXCEPT ![dev] =
                          SignerR1File(dev, token_hex, ch, acct_num, key_description, export)]
           ELSE UNCHANGED sr1
        /\ IF SignerR1Persists(res)
           THEN bsms' = [bsms EXCEPT ![dev] = BsmsAdd(@, BSMS_SIGNER_SETTINGS, token_hex)]
           ELSE UNCHANGED bsms
        /\ UNCHANGED <<cr2, wallets>>

----------------------------------------------------------------------------
(* Coordinator round 1: bsms_coordinator_round1 *)

\* the tokens ngu.random.bytes yields; seed tells one draw from another
RandomTokens(et, N, seed) ==
    IF et = "2" THEN [i \in 1 .. N |-> Tok(32, seed + i)]
    ELSE IF et = "1" THEN <<Tok(16, seed + 1)>>
    ELSE <<>>

\* the tuple (M, N, addr_fmt, encryption_type, tokens) kept in the settings
Session(M, N, addr_fmt, et, tokens) ==
    [M |-> M, N |-> N, addr_fmt |-> addr_fmt, et |-> et, tokens |-> tokens]

\* a check of N that lets a single signer pass
NOkFromOne(N) == 1 <= N /\ N <= MAX_SIGNERS
\* a check of M that has no upper end
MOkUnbounded(M, N) == 1 <= M

\* the asserts on the numbers entered
NOk(N) == 2 <= N /\ N <= MAX_SIGNERS
MOk(M, N) == 1 <= M /\ M <= N

\* round 1 that also keeps the session when the token files could not be written
CoordR1PersistsUnwritten(res) == res \in {"saved", "write_failed"}
\* BSMSSettings.coordinator_add is the last step but the closing story: it is
\* reached only by a run that returned or raised nowhere before
CoordR1Persists(res) == res = "saved"

\* the run gets as far as generating the tokens (lines 370-377): N and M are
\* in range and the address format and the encryption type were chosen
CoordR1Generates(N, M, ch, et) ==
    NOk(N) /\ MOk(M, N) /\ ch \in {"y", "1"} /\ et \in {"1", "2", "3"}

\* One run of coordinator round 1.  in: N, M as entered, ch the address
\* format answer, et the encryption type answer, seed the random draw, ok the
\* answer to the summary, export the export answer, write_ok whether the
\* token files can be written.  last keeps the tokens the run generated and
\* those it wrote to files or shared over NFC.
CoordinatorRound1(N, M, ch, et, seed, ok, export, write_ok) ==
    LET tokens == RandomTokens(et, N, seed)
        addr_fmt == IF ch = "y" THEN AF_P2WSH ELSE AF_P2WSH_P2SH
        res == IF ~NOk(N) THEN "bad_N"
               ELSE IF ~MOk(M, N) THEN "bad_M"
               ELSE IF ch \notin {"y", "1"} THEN "cancel"
               ELSE IF et \notin {"1", "2", "3"} THEN "cancel"
               ELSE IF ok # "y" THEN "cancel"
               ELSE IF tokens # <<>> /\ export \notin {"1", "2", "3"} THEN "cancel"
               ELSE IF tokens # <<>> /\ export # "3" /\ ~write_ok THEN "write_failed"
               ELSE "saved"
    IN  /\ last' = [op |-> "coordinator_round1", N |-> N, M |-> M, res |-> res,
                    tokens |-> IF CoordR1Generates(N, M, ch, et) THEN tokens ELSE <<>>,
                    emitted |-> IF res = "saved" THEN tokens ELSE <<>>,
                    shown |-> exceptions_handler("coordinator_round1", CoordR1Raised(res), res)]
        /\ IF CoordR1Persists(res)
           THEN bsms' = [bsms EXCEPT ![Coordinator] =
                           BsmsAdd(@, BSMS_COORD_SETTINGS, Session(M, N, addr_fmt, et, tokens))]
           ELSE UNCHANGED bsms
        /\ UNCHANGED <<sr1, cr2, wallets>>

----------------------------------------------------------------------------
(* Coordinator round 2: collecting the signer round-1 data *)

\* get_token(index) of session s; indices count from 1 here
get_token(s, index) ==
    IF Len(s.tokens) = 1 /\ s.et = "1" THEN s.tokens[1]
    ELSE IF Len(s.tokens) = s.N /\ s.et = "2" THEN s.tokens[index]
    ELSE T00

\* tokens[index] raises IndexError
GetTokenRaises(s, index) ==
    /\ ~(Len(s.tokens) = 1 /\ s.et = "1")
    /\ Len(s.tokens) = s.N /\ s.et = "2"
    /\ index \notin 1 .. s.N

IsEncrypted(s) == s.et \in {"1", "2"} /\ s.tokens # <<>>
Suffix(s) == IF IsEncrypted(s) THEN ".dat" ELSE ".txt"

\* a turn that goes on for as long as the user agrees to try again
TurnUntilDeclined(token, is_encrypted, tries) ==
    IF tries = <<>> THEN [st |-> "cancel", data |-> EmptyStr, reads |-> 0]
    ELSE IF ~is_encrypted THEN [st |-> "ok", data |-> BlobText(tries[1]), reads |-> 1]
    ELSE LET encryption_key == key_derivation_function(token)
             Opens(k) == bsms_decrypt(encryption_key, tries[k]) # EmptyStr
             first == IF \E k \in DOMAIN tries : Opens(k)
                      THEN CHOOSE k \in DOMAIN tries : Opens(k) /\ \A j \in 1 .. k - 1 : ~Opens(j)
                      ELSE 0
         IN  IF first = 0 THEN [st |-> "decrypt_failed", data |-> EmptyStr, reads |-> Len(tries)]
             ELSE [st |-> "ok", data |-> bsms_decrypt(encryption_key, tries[first]),
                   reads |-> first]

\* The turn of one signer in the NFC loop (lines 462-480) and in the manual
\* selection (lines 572-597): tries are the blobs the user is ready to
\* supply, of which at most two are read; none stands for leaving at the
\* first prompt, a second one for answering "Try again?" with OK; reads
\* counts the blobs read in the turn.
Turn(token, is_encrypted, tries) ==
    IF tries = <<>> THEN [st |-> "cancel", data |-> EmptyStr, reads |-> 0]
    ELSE IF ~is_encrypted THEN [st |-> "ok", data |-> BlobText(tries[1]), reads |-> 1]
    ELSE LET encryption_key == key_derivation_function(token)
             d1 == bsms_decrypt(encryption_key, tries[1])
             d2 == bsms_decrypt(encryption_key, tries[2])
         IN  IF d1 # EmptyStr THEN [st |-> "ok", data |-> d1, reads |-> 1]
             ELSE IF Len(tries) < 2
                  THEN [st |-> "decrypt_failed", data |-> EmptyStr, reads |-> 1]
             ELSE IF d2 # EmptyStr THEN [st |-> "ok", data |-> d2, reads |-> 2]
             ELSE [st |-> "decrypt_failed", data |-> EmptyStr, reads |-> 2]

\* the longest prefix 1 .. k of 1 .. n on which P, a function on 1 .. n, holds
PrefixWhile(n, P) ==
    CHOOSE k \in 0 .. n : (\A i \in 1 .. k : P[i]) /\ (k = n \/ ~P[k + 1])

\* All N turns one after the other, appending to r1_data; the first turn that
\* does not yield data ends the round.
CollectByTurns(s, tries, r1_data) ==
    LET Upto(turns, k) ==
            [st |-> IF k = s.N THEN "ok" ELSE turns[k + 1].st,
             r1_data |-> r1_data \o [i \in 1 .. k |-> turns[i].data],
             keymap |-> IF IsEncrypted(s) THEN {get_token(s, i) : i \in 1 .. k} ELSE {},
             reads |-> [i \in 1 .. (IF k = s.N THEN k ELSE k + 1) |-> turns[i].reads],
             under |-> [i \in 1 .. k |-> get_token(s, i)]]
        Turns(turns) == Upto(turns, PrefixWhile(s.N, [i \in 1 .. s.N |-> turns[i].st = "ok"]))
    IN  Turns([i \in 1 .. s.N |-> Turn(get_token(s, i), IsEncrypted(s), tries[i])])

\* Auto-collection (lines 506-561) over the directory listing dir; st is
\* "ok" or "failed" (an assertion raised), r1_data what was appended so far.
AutoCollect(s, dir) ==
    LET file_names == SelectSeq(dir, LAMBDA f :
                          f.name.base = "bsms_sr1" /\ f.name.suffix = Suffix(s))
        n == Len(file_names)
    IN
    IF s.et = "1" THEN
        LET token == get_token(s, 1)
            key == key_derivation_function(token)
            texts == [i \in 1 .. n |-> bsms_decrypt(key, file_names[i].blob)]
            r1 == SelectSeq(texts, LAMBDA t : t # EmptyStr)
        IN  [st |-> IF Len(r1) = s.N THEN "ok" ELSE "failed",
             r1_data |-> r1, keymap |-> {token}, reads |-> <<>>,
             under |-> [i \in DOMAIN r1 |-> token]]
    ELSE IF s.et = "2" THEN
        LET Matches(i) == SelectSeq(file_names, LAMBDA f : f.name.tok4 = Tok4(get_token(s, i)))
            Text(i) == bsms_decrypt(key_derivation_function(get_token(s, i)), Matches(i)[1].blob)
            Found(i) == Matches(i) # <<>> /\ Text(i) # EmptyStr
            k == PrefixWhile(s.N, [i \in 1 .. s.N |-> Found(i)])
        IN  [st |-> IF k = s.N THEN "ok" ELSE "failed",
             r1_data |-> [i \in 1 .. k |-> Text(i)],
             keymap |-> {get_token(s, i) : i \in 1 .. k}, reads |-> <<>>,
             under |-> [i \in 1 .. k |-> get_token(s, i)]]
    ELSE
        LET Text(i) == BlobText(file_names[i].blob)
            k == PrefixWhile(n, [i \in 1 .. n |-> TextStartsWith(Text(i), BSMS_MAGIC)])
        IN  IF n # s.N THEN [st |-> "failed", r1_data |-> <<>>, keymap |-> {}, reads |-> <<>>,
                                under |-> <<>>]
            ELSE [st |-> IF k = n THEN "ok" ELSE "failed",
                  r1_data |-> [i \in 1 .. k |-> Text(i)], keymap |-> {},
                  reads |-> <<>>, under |-> [i \in 1 .. k |-> T00]]

\* The collection phase (lines 455-597).  via is "nfc", "manual" (OK at the
\* auto-collection prompt), "auto" or "exit" (X at that prompt); a failed
\* auto-collection goes on with the manual selection.
Collect(s, via, dir, tries) ==
    IF via = "exit" THEN [st |-> "cancel", r1_data |-> <<>>, keymap |-> {}, reads |-> <<>>,
                           under |-> <<>>]
    ELSE IF via \in {"nfc", "manual"} THEN CollectByTurns(s, tries, <<>>)
    ELSE LET Manual(auto) ==
                 IF auto.st = "ok" THEN auto
                 ELSE [CollectByTurns(s, tries, auto.r1_data) EXCEPT
                          !.keymap = @ \cup auto.keymap,
                          !.under = auto.under \o @]
         IN  Manual(AutoCollect(s, dir))

----------------------------------------------------------------------------
(* Coordinator round 2: validation, descriptor template, export *)

\* the token comparison on the length of the tokens only
TokenLengthMatches(tok, token) == TokLen(tok) = TokLen(token)
TokenMatches(tok, token) == tok = token

\* SignatureOk with the key recovered for the digest the signer signed,
\* whatever the lines say now
SignatureOkOwnDigest(token, key_exp, description, sig, ext_key) ==
    deserialize(ext_key).pk = verify_recover_pubkey(a2b_base64(sig), a2b_base64(sig).dg)

\* the key recovered from the signature over the recomputed four lines is the
\* key of the declared extended key
SignatureOk(token, key_exp, description, sig, ext_key) ==
    LET msg == signer_data_round1_unsigned(token, key_exp, description)
        digest == hash_message(msg)
        recovered_pk == verify_recover_pubkey(a2b_base64(sig), digest)
    IN  deserialize(ext_key).pk = recovered_pk

\* The checks of lines 604-619 on one collected text, in their order: "ok",
\* or the check that raised.
ContributionCheck(token, data) ==
    IF ~VersionOk(data) THEN "version"
    ELSE IF Len(data) # 5 THEN "split"
    ELSE IF ~TokenMatches(data[2], token) THEN "token"
    ELSE IF ~ExtKeyPrefixOk(parse_key_orig_info(data[3]).ext) THEN "key_prefix"
    ELSE IF ~CanDeserialize(parse_key_orig_info(data[3]).ext) THEN "key_decode"
    ELSE IF ~SignatureOk(token, data[3], data[4], data[5], parse_key_orig_info(data[3]).ext)
         THEN "signature"
    ELSE "ok"

\* keys.append((xfp_str, derivation, ext_key))
ContributionKey(data) ==
    LET p == parse_key_orig_info(data[3])
    IN  [xfp |-> p.koi.xfp, deriv |-> PrependM(p.koi.deriv), ext |-> p.ext]

\* ValidateAll that leaves out the contributions failing a check and goes on
ValidateAllSkipping(s, r1_data) ==
    LET good == SelectSeq([i \in DOMAIN r1_data |-> i],
                          LAMBDA i : ~GetTokenRaises(s, i)
                                     /\ ContributionCheck(get_token(s, i), r1_data[i]) = "ok")
    IN  [st |-> IF good = <<>> THEN "version" ELSE "ok",
         at |-> Len(r1_data) + 1,
         keys |-> [n \in DOMAIN good |-> ContributionKey(r1_data[good[n]])]]

\* The validation loop (lines 602-623) over everything collected: st is "ok"
\* or the first check that raised, at entry at; keys are those appended.
ValidateAll(s, r1_data) ==
    LET Check(i) == IF GetTokenRaises(s, i) THEN "index"
                    ELSE ContributionCheck(get_token(s, i), r1_data[i])
        k == PrefixWhile(Len(r1_data), [i \in 1 .. Len(r1_data) |-> Check(i) = "ok"])
    IN  [st |-> IF k = Len(r1_data) THEN "ok" ELSE Check(k + 1),
         at |-> k + 1,
         keys |-> [i \in 1 .. k |-> ContributionKey(r1_data[i])]]

\* a template with a checksum appended after the wildcards were collapsed
DescTemplateChecksummed(s, keys) ==
    append_checksum(DescReplace(DescSerializeIntExt(s.M, s.N, keys, s.addr_fmt),
                                <<"<0;1>", "/", "*">>, <<"*", "*">>))

\* lines 626-628: the descriptor template
DescTemplate(s, keys) ==
    DescReplace(DescSerializeIntExt(s.M, s.N, keys, s.addr_fmt),
                <<"<0;1>", "/", "*">>, <<"*", "*">>)

\* lines 626-635: the round-2 text
R2Data(s, keys) ==
    coordinator_data_round2(
        DescTemplate(s, keys),
        FirstAddress(s.M, s.addr_fmt, [i \in DOMAIN keys |-> keys[i].ext]))

\* an export that seals every file under the key of the first token
ExportFilesUnderFirst(s, r2_data) ==
    IF s.et = "3" THEN <<File(FileName("bsms_cr2", None, Suffix(s)), PlainBlob(r2_data))>>
    ELSE [i \in DOMAIN s.tokens |->
            File(FileName("bsms_cr2", IF s.et = "2" THEN Tok4(s.tokens[i]) ELSE None, Suffix(s)),
                 bsms_encrypt(key_derivation_function(get_token(s, 1)), get_token(s, 1),
                              r2_data))]

\* the files of to_export_generator, and what is shared over NFC: the round-2
\* text once per token, encrypted under the key kept for the token
ExportFiles(s, r2_data) ==
    IF s.et = "3" THEN <<File(FileName("bsms_cr2", None, Suffix(s)), PlainBlob(r2_data))>>
    ELSE IF s.et = "1" THEN
        <<File(FileName("bsms_cr2", None, Suffix(s)),
               bsms_encrypt(key_derivation_function(get_token(s, 1)), get_token(s, 1), r2_data))>>
    ELSE [i \in DOMAIN s.tokens |->
            File(FileName("bsms_cr2", Tok4(s.tokens[i]), Suffix(s)),
                 bsms_encrypt(key_derivation_function(s.tokens[i]), s.tokens[i], r2_data))]

\* the tokens whose key the export looks up in token_key_map
ExportTokens(s) ==
    IF s.et = "3" THEN {} ELSE IF s.et = "1" THEN {get_token(s, 1)} ELSE Range(s.tokens)

\* One run of coordinator round 2 on session s.  in: via, dir and tries as
\* for Collect; export the export answer ('1', '2', '3', 'x'); shared how many
\* of the NFC exports the user confirms; write_ok whether the files can be
\* written.  res is how the run ended, emitted what left the device.
CoordR2Run(s, via, dir, tries, export, shared, write_ok) ==
    LET \* lines 638-698, given what the lines before have computed
        Export(coll, val, assembled, r2_data, files, res) ==
            [coll |-> coll, val |-> val, res |-> res, assembled |-> assembled,
             r2_data |-> IF assembled THEN r2_data ELSE EmptyStr,
             emitted |-> IF res = "done" THEN files
                         ELSE IF res = "cancel" /\ assembled /\ export = "3"
                                 /\ ExportTokens(s) \subseteq coll.keymap
                              THEN SubSeq(files, 1, shared)
                         ELSE <<>>]
        Result(coll, val, r2_data, files) ==
            Export(coll, val, coll.st = "ok" /\ val.st = "ok", r2_data, files,
                   IF coll.st # "ok" THEN coll.st
                   ELSE IF val.st # "ok" THEN val.st
                   ELSE IF export \notin {"1", "2", "3"} THEN "cancel"
                   ELSE IF ~(ExportTokens(s) \subseteq coll.keymap) THEN "key_error"
                   ELSE IF export = "3" /\ s.et = "2" /\ shared < Len(files) THEN "cancel"
                   ELSE IF export # "3" /\ ~write_ok THEN "write_failed"
                   ELSE "done")
        \* lines 625-635
        Assemble(coll, val, r2_data) == Result(coll, val, r2_data, ExportFiles(s, r2_data))
        \* lines 599-623
        Validate(coll, val) == Assemble(coll, val, R2Data(s, val.keys))
        Collected(coll) == Validate(coll, ValidateAll(s, coll.r1_data))
    IN  Collected(Collect(s, via, dir, tries))

\* a round 2 that removes its session once everything was exported
CoordR2ConsumesDone(res) == res = "done"

\* whether a run of coordinator round 2 that ended res removes its session:
\* the round reads the session and writes no settings on any path
CoordR2Consumes(res) == FALSE

\* One run of coordinator round 2 from menu entry index.
CoordinatorRound2(index, via, dir, tries, export, shared, write_ok) ==
    /\ index \in DOMAIN get_coordinators(Coordinator)
    /\ \E s \in {get_coordinators(Coordinator)[index]} :
       \E run \in {CoordR2Run(s, via, dir, tries, export, shared, write_ok)} :
           /\ last' = [op |-> "coordinator_round2", index |-> index, s |-> s, via |-> via,
                       dir |-> dir, tries |-> tries, run |-> run,
                       shown |-> exceptions_handler("coordinator_round2",
                                                    CoordR2Raised(run.res, export), run.res)]
           /\ cr2' = IF run.emitted # <<>> THEN run.emitted ELSE cr2
           /\ IF CoordR2Consumes(run.res)
              THEN bsms' = [bsms EXCEPT ![Coordinator] = BsmsDelete(@, BSMS_COORD_SETTINGS, index)]
              ELSE UNCHANGED bsms
    /\ UNCHANGED <<sr1, wallets>>

----------------------------------------------------------------------------
(* What the users answer and supply *)

\* the answers to the prompts of signer round 1: <<ok, ch, export, write_ok>>;
\* an answer after the one that ends the run is not asked for
R1Answers ==
    {a \in {"y", "x"} \X {"y", "1", "2", "x"} \X {"1", "3", "x"} \X BOOLEAN :
        /\ (a[1] = "x" => a[2] = "y")
        /\ (a[1] = "x" \/ a[2] = "x" => a[3] = "1")
        /\ (a[1] = "x" \/ a[2] = "x" \/ a[3] # "1" => a[4])}

\* the answers to the export prompts of coordinator round 2:
\* <<export, shared, write_ok>>
ExportAnswers(N) ==
    {<<"x", N, TRUE>>, <<"1", N, TRUE>>, <<"1", N, FALSE>>, <<"3", N, TRUE>>, <<"3", 1, TRUE>>}

\* text as the holder of token puts it into a file or an NFC message
Sealed(token, text) ==
    IF key_derivation_function(token) = None THEN PlainBlob(text)
    ELSE bsms_encrypt(key_derivation_function(token), token, text)

\* a token of the same shape from another session
StrangerToken(token) == IF token = T00 THEN Tok(16, 9) ELSE Tok(token.n, 9)

\* the extended key of a master secret outside the setup
ForeignKey == serialize_public(derive_path(Foreign, Path(48, 0, 2)))

Reverse(q) == [i \in DOMAIN q |-> q[Len(q) + 1 - i]]

----------------------------------------------------------------------------
(* The protocol run end to end: Spec *)

EmptyDict == <<>>

Init ==
    /\ bsms = [d \in Devices |-> EmptyDict]
    /\ sr1 = [d \in Signers |-> None]
    /\ cr2 = <<>>
    /\ wallets = [d \in Signers |-> None]
    /\ last = [op |-> "init"]

\* the sessions a coordinator round 2 can be started from
CoordSessions == get_coordinators(Coordinator)

DoCoordinatorRound1 ==
    /\ CoordSessions = <<>>
    /\ \E N \in 1 .. MaxN, M \in 1 .. MaxN + 1, ch \in {"y", "1", "x"},
          et \in {"1", "2", "3", "x"}, ok \in {"y", "x"}, export \in {"1", "3", "x"},
          write_ok \in BOOLEAN :
            CoordinatorRound1(N, M, ch, et, 0, ok, export, write_ok)

\* each signer of the session runs round 1 with the token meant for it
DoSignerRound1 ==
    \E index \in DOMAIN CoordSessions :
    \E dev \in 1 .. CoordSessions[index].N, a \in R1Answers :
        /\ get_signers(dev) = <<>>
        /\ wallets[dev] = None
        /\ cr2 = <<>>
        /\ SignerRound1(dev, get_token(CoordSessions[index], dev), a[1], a[2], 0, None,
                        a[3], a[4])

\* every signer of session s has emitted its round-1 output, all over NFC or
\* all as files
AllEmitted(s, nfc) ==
    \A d \in 1 .. s.N : sr1[d] # None /\ (sr1[d].name = NfcName) = nfc

\* The user hands the N outputs to coordinator round 2 in some order p, one
\* per turn; the card lists them in that order for the auto-collection.
DoCoordinatorRound2 ==
    \E index \in DOMAIN CoordSessions, via \in {"nfc", "manual", "auto", "exit"} :
    \E p \in Permutations(1 .. CoordSessions[index].N),
       x \in ExportAnswers(CoordSessions[index].N) :
        /\ cr2 = <<>>
        /\ AllEmitted(CoordSessions[index], via = "nfc")
        /\ CoordinatorRound2(index, via,
                             [i \in DOMAIN p |-> sr1[p[i]]],
                             [i \in DOMAIN p |-> <<sr1[p[i]].blob>>],
                             x[1], x[2], x[3])

\* each signer runs round 2 on what the coordinator emitted
DoSignerRound2 ==
    \E dev \in Signers, index \in {1}, f \in Range(cr2), enrol_ok \in BOOLEAN :
        SignerRound2(dev, index, f.blob, enrol_ok)

Next ==
    \/ DoCoordinatorRound1
    \/ DoSignerRound1
    \/ DoCoordinatorRound2
    \/ DoSignerRound2

Spec == Init /\ [][Next]_vars

----------------------------------------------------------------------------
(* The state a setup is in after its rounds were run without deviation *)

\* the sessions coordinator round 1 can store
Setups ==
    {Session(q[1], q[2], q[3], q[4], RandomTokens(q[4], q[2], 0)) :
        q \in {r \in (1 .. MaxN) \X (2 .. MaxN) \X {AF_P2WSH, AF_P2WSH_P2SH} \X {"1", "2", "3"} :
                 r[1] <= r[2]}}

\* the address-format answer signer d gives in round 1
SetupCh(d) == CASE d = 1 -> "y" [] d = 2 -> "1" [] OTHER -> "2"

\* after coordinator round 1 for s and signer round 1 of each of its signers
SetupBsms(s) ==
    [d \in Devices |->
        IF d = Coordinator THEN BsmsAdd(EmptyDict, BSMS_COORD_SETTINGS, s)
        ELSE IF d <= s.N THEN BsmsAdd(EmptyDict, BSMS_SIGNER_SETTINGS, get_token(s, d))
        ELSE EmptyDict]

SetupSr1(s) ==
    [d \in Signers |->
        IF d <= s.N
        THEN SignerR1File(d, get_token(s, d), SetupCh(d), 0,
                          DefaultDescription(SetupCh(d), 0), "1")
        ELSE None]

\* after coordinator round 2 over these outputs, picked one by one
SetupCr2(s) ==
    CoordR2Run(s, "manual", <<>>, [i \in 1 .. s.N |-> <<SetupSr1(s)[i].blob>>],
               "1", s.N, TRUE).emitted

\* the session of the coordinator, and the text of what it emitted in round 2
CoordSession == CoordSessions[1]
CoordText ==
    IF cr2 = <<>> THEN EmptyStr
    ELSE SignerR2Text(get_token(CoordSession, 1), cr2[1].blob)

----------------------------------------------------------------------------
(* Signer round 2 on any payload: SpecSignerR2 *)

InitSignerR2 ==
    \E s \in Setups :
        /\ bsms = SetupBsms(s)
        /\ sr1 = SetupSr1(s)
        /\ cr2 = SetupCr2(s)
        /\ wallets = [d \in Signers |-> None]
        /\ last = [op |-> "init"]

\* an address line that differs from addr
AltAddr(addr) == [addr EXCEPT !.af = "?"]

\* the address a descriptor template D gives
AddrOf(D) ==
    FirstAddress(D.M, IF D.wrap = "wsh" THEN AF_P2WSH ELSE AF_P2WSH_P2SH,
                 [i \in DOMAIN D.keys |-> D.keys[i].ext])

\* descriptor templates that differ from D in one place
DescVariants(D) ==
    LET J == DOMAIN D.keys
    IN  {D}
        \cup {[D EXCEPT !.keys[j].ext = ForeignKey] : j \in J}
        \cup {[D EXCEPT !.keys[j].ext.ok = FALSE] : j \in J}
        \cup {[D EXCEPT !.keys[j].ext.pfx = "Vpub"] : j \in J}
        \cup {[D EXCEPT !.keys[j].ext = D.keys[k].ext] : j \in J, k \in J}
        \cup {[D EXCEPT !.keys[j].xfp = xfp2str(x)] : j \in J, x \in J \cup {Foreign}}
        \cup {[D EXCEPT !.keys[j].deriv = StripM(Path(48, 1, 2))] : j \in J}
        \cup {[D EXCEPT !.keys[j].wild = w] :
                 j \in J, w \in {WILD_EXTERNAL, <<"/", "1", "/", "*">>}}
        \cup {[D EXCEPT !.keys = Reverse(D.keys)]}
        \cup {[D EXCEPT !.M = m] : m \in 1 .. Len(D.keys) + 1}
        \cup {[D EXCEPT !.wrap = w] : w \in {"wsh", "sh(wsh", "sh"}}
        \cup {[D EXCEPT !.fn = "multi"]}
        \cup {append_checksum(D),
              [D EXCEPT !.csum = DescChecksum(DescReplace(D, WILD_TEMPLATE, WILD_EXTERNAL))]}

\* round-2 texts that differ from t in one line, or in the descriptor and in
\* the address computed anew for it
R2Variants(t) ==
    {[t EXCEPT ![2] = D, ![4] = a] :
        D \in DescVariants(t[2]), a \in {t[4], AltAddr(t[4])}}
    \cup {[t EXCEPT ![2] = D, ![4] = AddrOf(D)] : D \in DescVariants(t[2])}
    \cup {[t EXCEPT ![1] = v] :
             v \in {BSMS_VERSION \o <<"1">>, <<"B", "S", "M", "S", " ", "2", ".", "0">>}}
    \cup {[t EXCEPT ![3] = "/0/*"], SubSeq(t, 1, 3), t \o <<t[4]>>}

\* what a signer holding token can be handed as the coordinator's output
R2Blobs(token, t) ==
    {Sealed(token, v) : v \in R2Variants(t)}
    \cup {Sealed(StrangerToken(token), t), Sealed(T00, t)}

\* one run of signer round 2, on any of these
DoSignerRound2Any ==
    /\ last.op = "init"
    /\ \E dev \in 1 .. CoordSession.N, index \in {1}, enrol_ok \in BOOLEAN :
       \E blob \in R2Blobs(get_signers(dev)[index], CoordText) :
            SignerRound2(dev, index, blob, enrol_ok)

NextSignerR2 == DoSignerRound2Any

SpecSignerR2 == InitSignerR2 /\ [][NextSignerR2]_vars

----------------------------------------------------------------------------
(* The signers of a setup on differing payloads: SpecAgreement *)

\* the coordinator's text; its keys listed in the opposite order; one key
\* replaced by a foreign one, with the address kept or computed anew
AgreementVariants(t) ==
    LET D == t[2]
        Forged == {[D EXCEPT !.keys[j].ext = ForeignKey] : j \in DOMAIN D.keys}
    IN  {t, [t EXCEPT ![2].keys = Reverse(D.keys)]}
        \cup {[t EXCEPT ![2] = F] : F \in Forged}
        \cup {[t EXCEPT ![2] = F, ![4] = AddrOf(F)] : F \in Forged}

DoSignerRound2Variant ==
    \E dev \in 1 .. CoordSession.N, index \in {1}, enrol_ok \in BOOLEAN :
    \E t \in AgreementVariants(CoordText) :
        /\ index \in DOMAIN get_signers(dev)
        /\ SignerRound2(dev, index, Sealed(get_signers(dev)[index], t), enrol_ok)

NextAgreement == DoSignerRound2Variant

SpecAgreement == InitSignerR2 /\ [][NextAgreement]_vars

----------------------------------------------------------------------------
(* Coordinator round 2 on any contribution: SpecCoordR2 *)

InitCoordR2 ==
    \E s \in Setups :
        /\ bsms = SetupBsms(s)
        /\ sr1 = SetupSr1(s)
        /\ cr2 = <<>>
        /\ wallets = [d \in Signers |-> None]
        /\ last = [op |-> "init"]

\* round-1 texts that differ from t, the text signer i emitted under token,
\* in one line; the text of a foreign device under the token; the text of
\* another signer of the setup
R1Variants(s, i, token, t) ==
    LET foreign_node == derive_path(Foreign, Path(48, 0, 2))
    IN  {t,
         [t EXCEPT ![1] = BSMS_VERSION \o <<"1">>],
         [t EXCEPT ![1] = <<"B", "S", "M", "S", " ", "2", ".", "0">>],
         [t EXCEPT ![2] = StrangerToken(token)],
         [t EXCEPT ![3].ext = ForeignKey],
         [t EXCEPT ![3].ext.pfx = "Vpub"],
         [t EXCEPT ![3].ext.ok = FALSE],
         [t EXCEPT ![3].xfp = xfp2str(Foreign)],
         [t EXCEPT ![3].deriv = StripM(Path(48, 1, 2))],
         [t EXCEPT ![4] = [len |-> 5, txt |-> <<"other">>]],
         [t EXCEPT ![5] = b2a_base64(sign(foreign_node, hash_message(SubSeq(t, 1, 4))))],
         SubSeq(t, 1, 4),
         SignerR2Text(token, SignerR1Data(Foreign, token, Path(48, 0, 2),
                                         DefaultDescription("1", 0)))}
        \cup {SignerR2Text(get_token(s, j), sr1[j].blob) : j \in 1 .. s.N}

\* what the user can supply in the turn of signer i: nothing, one blob, a
\* blob that does not decrypt and then another one, or two that do not
\* decrypt and then the signer's output
TurnTries(s, i) ==
    LET token == get_token(s, i)
        t == SignerR2Text(token, sr1[i].blob)
        wrong == {Sealed(StrangerToken(token), t),
                  IF token = T00 THEN Sealed(StrangerToken(token), t) ELSE PlainBlob(t)}
        blobs == {Sealed(token, v) : v \in R1Variants(s, i, token, t)} \cup wrong
    IN  {<<>>} \cup {<<b>> : b \in blobs}
        \cup {<<w, b>> : w \in wrong, b \in wrong \cup {sr1[i].blob}}
        \cup {<<w, w, sr1[i].blob>> : w \in wrong}

\* one run of coordinator round 2 in which the turn of one signer is supplied
\* with any of these, the other turns with the signers' outputs; the card
\* holds what is supplied first in each turn
DoCoordinatorRound2Any ==
    /\ last.op = "init"
    /\ \E via \in {"nfc", "manual", "auto", "exit"}, i \in 1 .. CoordSession.N,
          x \in ExportAnswers(CoordSession.N) :
       \E tr \in TurnTries(CoordSession, i) :
          LET tries == [k \in 1 .. CoordSession.N |-> IF k = i THEN tr ELSE <<sr1[k].blob>>]
              present == SelectSeq([k \in 1 .. CoordSession.N |-> k],
                                   LAMBDA k : tries[k] # <<>>)
              dir == [n \in DOMAIN present |->
                        File(sr1[present[n]].name, tries[present[n]][1])]
          IN  CoordinatorRound2(1, via, dir, tries, x[1], x[2], x[3])

NextCoordR2 == DoCoordinatorRound2Any

SpecCoordR2 == InitCoordR2 /\ [][NextCoordR2]_vars

----------------------------------------------------------------------------
(* Properties *)

IsSignerR2 == last.op = "signer_round2"
IsCoordR2 == last.op = "coordinator_round2"

\* the text the last signer round 2 read from its payload
PayloadText == SignerR2Text(last.token, last.blob)

\* the first address of descriptor D, from the extended keys it lists: each
\* key at external index 0, then index 0 of the sorted multisig script
AddressOverAllKeys(D) ==
    p2sh_address(IF D.wrap = "wsh" THEN AF_P2WSH ELSE AF_P2WSH_P2SH,
                 make_redeem_script(
                     D.M, [i \in DOMAIN D.keys |-> derive(deserialize(D.keys[i].ext), 0)], 0))

\* the signers that have enrolled a wallet
Enrolled == {d \in Signers : wallets[d] # None}

(* C1 *)

\* C1, as stated: whenever signer round 2 has succeeded on all N signers of
\* the setup, all of them have computed the same first address and the same
\* set of descriptor keys.
C1_AgreementAsStated ==
    (\A d \in 1 .. CoordSession.N : d \in Enrolled) =>
        \A d1 \in Enrolled, d2 \in Enrolled :
            /\ wallets[d1].addr = wallets[d2].addr
            /\ wallets[d1].keys = wallets[d2].keys

\* C1, amended: any two signers whose round 2 succeeded on payloads that carry
\* the same address line have computed the same first address and the same
\* set of descriptor keys, in whatever order the descriptors list the keys.
C1_AgreementOnAddressLine ==
    \A d1 \in Enrolled, d2 \in Enrolled :
        wallets[d1].claimed = wallets[d2].claimed =>
            /\ wallets[d1].addr = wallets[d2].addr
            /\ wallets[d1].keys = wallets[d2].keys

\* all signers of the setup enrolled on the same address line, two of them
\* from descriptors listing the keys in different orders
C1_Witness ==
    /\ \A d \in 1 .. CoordSession.N : d \in Enrolled
    /\ \A d \in Enrolled : wallets[d].claimed = CoordText[4] /\ wallets[d].addr = CoordText[4]
    /\ \E d1 \in Enrolled, d2 \in Enrolled :
          /\ wallets[d1].config.keys # wallets[d2].config.keys
          /\ wallets[d1].keys = wallets[d2].keys

(* C2 *)

\* the payload is the coordinator's with another address line
AddressOnlyAltered ==
    /\ Len(PayloadText) = 4
    /\ SubSeq(PayloadText, 1, 3) = SubSeq(CoordText, 1, 3)
    /\ PayloadText[4] # CoordText[4]

\* C2: signer round 2 reaches the enrolment only if the first address over
\* all descriptor keys at external index 0 equals the address line of the
\* payload; on the coordinator's payload with only the address line altered
\* every signer fails with the address mismatch and enrols nothing.
C2_EnrolOnlyOnOwnAddress ==
    IsSignerR2 =>
        /\ last.run.res = "enrol" =>
              /\ Len(PayloadText) = 4
              /\ AddressOverAllKeys(PayloadText[2]) = PayloadText[4]
        /\ wallets[last.dev] # None => last.run.res = "enrol"
        /\ AddressOnlyAltered =>
              /\ last.run.res = "address_mismatch"
              /\ ~last.enrolled
              /\ wallets[last.dev] = None

C2_Witness ==
    /\ IsSignerR2
    /\ AddressOnlyAltered
    /\ last.run.res = "address_mismatch"
    /\ wallets[last.dev] = None

(* C3 *)

\* the payload is the coordinator's with the extended key of entry j altered
KeyAltered(j) ==
    /\ Len(PayloadText) = 4
    /\ j \in DOMAIN CoordText[2].keys
    /\ DOMAIN PayloadText[2].keys = DOMAIN CoordText[2].keys
    /\ PayloadText[2].keys[j].ext # CoordText[2].keys[j].ext
    /\ PayloadText = [CoordText EXCEPT ![2].keys[j].ext = PayloadText[2].keys[j].ext]

\* entry j of the coordinator's descriptor is listed under another XFP than
\* that of the signer of the last run
OfAnotherSigner(j) == str2xfp(CoordText[2].keys[j].xfp) # MasterXfp(last.dev)

\* C3, as stated: with one extended key of the payload altered, a signer
\* with another XFP fails at the address comparison.
C3_AlteredKeyAsStated ==
    IsSignerR2 =>
        \A j \in DOMAIN CoordText[2].keys :
            KeyAltered(j) /\ OfAnotherSigner(j) => last.run.res = "address_mismatch"

\* C3, amended: with one extended key of the payload altered to another key
\* that still carries the chain's prefix and still decodes, a signer with
\* another XFP fails at the address comparison, after its secret was used
\* for the own-key check, and enrols nothing.
C3_AlteredKeyStillValid ==
    IsSignerR2 =>
        \A j \in DOMAIN CoordText[2].keys :
            /\ KeyAltered(j)
            /\ OfAnotherSigner(j)
            /\ PayloadText[2].keys[j].ext.pfx = ext_key_prefix
            /\ PayloadText[2].keys[j].ext.ok
            => /\ last.run.res = "address_mismatch"
               /\ last.run.sv
               /\ wallets[last.dev] = None

C3_Witness ==
    /\ IsSignerR2
    /\ \E j \in DOMAIN CoordText[2].keys :
          /\ KeyAltered(j)
          /\ OfAnotherSigner(j)
          /\ PayloadText[2].keys[j].ext.pfx = ext_key_prefix
          /\ PayloadText[2].keys[j].ext.ok
    /\ last.run.res = "address_mismatch"

(* C4 *)

\* the descriptor of the payload lists, under the XFP of the signer of the
\* last run, a key that is not the one the signer derives at the path given
OwnKeySubstituted ==
    /\ Len(PayloadText) >= 2
    /\ \E j \in DOMAIN PayloadText[2].keys :
          LET k == PayloadText[2].keys[j]
          IN  /\ str2xfp(k.xfp) = MasterXfp(last.dev)
              /\ k.ext # serialize_public(derive_path(last.dev, PrependM(k.deriv)))

\* C4: a descriptor whose entry under the device's own XFP is not the key the
\* device derives at the path of that entry is rejected before the address
\* is computed or compared and before the enrolment.
C4_OwnKeyChecked ==
    IsSignerR2 /\ OwnKeySubstituted =>
        /\ last.run.res \notin {"address_mismatch", "enrol"}
        /\ last.run.calc_addr = None
        /\ ~last.enrolled
        /\ wallets[last.dev] = None

\* the own key replaced and the address line computed anew for the descriptor
C4_Witness ==
    /\ IsSignerR2
    /\ OwnKeySubstituted
    /\ Len(PayloadText) = 4
    /\ AddressOverAllKeys(PayloadText[2]) = PayloadText[4]
    /\ last.run.res = "own_key"

(* C5 *)

\* the number of entries of the payload's descriptor under the XFP of the
\* signer of the last run
OwnEntries ==
    Cardinality({j \in DOMAIN PayloadText[2].keys :
                    str2xfp(PayloadText[2].keys[j].xfp) = MasterXfp(last.dev)})

\* the run got as far as the self-location
ReachedSelfLocation ==
    last.run.res \notin {"decrypt", "version", "split", "path_restrictions", "descriptor",
                          "key_prefix", "key_decode"}

\* C5: signer round 2 goes past the self-location only with exactly one entry
\* under the device's XFP; with none it fails as self missing, with two or
\* more as duplicate self, and then no secret is derived and nothing enrolled.
C5_ExactlyOneSelf ==
    IsSignerR2 /\ ReachedSelfLocation =>
        /\ OwnEntries = 0 => last.run.res = "self_missing"
        /\ OwnEntries >= 2 => last.run.res = "duplicate_self"
        /\ last.run.res \in {"own_key", "address_mismatch", "enrol"} => OwnEntries = 1
        /\ OwnEntries # 1 => ~last.run.sv /\ ~last.enrolled /\ wallets[last.dev] = None

C5_Witness ==
    /\ IsSignerR2
    /\ ReachedSelfLocation
    /\ OwnEntries >= 2
    /\ last.run.res = "duplicate_self"
    /\ ~last.run.sv

(* C6 *)

\* each output is supplied in the turn of its token (any order does where
\* all signers share one token or none)
InTokenOrder ==
    last.s.et = "2" /\ last.via \in {"nfc", "manual"} =>
        \A i \in DOMAIN last.tries : last.tries[i] = <<sr1[i].blob>>

\* the signer of the last run was handed what the coordinator emitted for its token
OwnExport ==
    \E k \in DOMAIN cr2 :
        /\ cr2[k].blob = last.blob
        /\ cr2[k].name.tok4 \in {None, Tok4(last.token)}

\* C6: in a run without deviation, whatever the encryption type, coordinator
\* round 2 accepts every contribution and lists the key of each signer, and
\* every signer's round 2 on the coordinator's output passes all checks and
\* reaches the enrolment with the address the coordinator emitted.
C6_HonestRunSucceeds ==
    /\ IsCoordR2 /\ last.via # "exit" /\ InTokenOrder =>
          /\ last.run.assembled
          /\ {last.run.val.keys[i].ext : i \in DOMAIN last.run.val.keys}
                = {SignerR2Text(get_token(last.s, d), sr1[d].blob)[3].ext : d \in 1 .. last.s.N}
          /\ Len(last.run.val.keys) = last.s.N
    /\ IsSignerR2 /\ OwnExport =>
          /\ last.run.res = "enrol"
          /\ last.run.calc_addr = CoordText[4]
          /\ last.enrolled => wallets[last.dev].addr = CoordText[4]

\* all signers of an EXTENDED setup have enrolled with the coordinator's address
C6_Witness ==
    /\ CoordSessions # <<>>
    /\ CoordSession.et = "2"
    /\ cr2 # <<>>
    /\ \A d \in 1 .. CoordSession.N : d \in Enrolled /\ wallets[d].addr = CoordText[4]

(* C7 *)

\* the checks of the validation on entry i of what was collected, spelled out
PassesChecks(s, i, d) ==
    /\ TextStartsWith(d, BSMS_VERSION)
    /\ Len(d) = 5
    /\ ~GetTokenRaises(s, i)
    /\ d[2] = get_token(s, i)
    /\ d[3].ext.pfx = ext_key_prefix
    /\ d[3].ext.ok
    /\ verify_recover_pubkey(d[5].b64, hash_message(<<BSMS_VERSION, d[2], d[3], d[4]>>))
          = d[3].ext.pk

AllPass ==
    \A i \in DOMAIN last.run.coll.r1_data :
        PassesChecks(last.s, i, last.run.coll.r1_data[i])

\* C7: coordinator round 2 builds and emits a round-2 payload only after
\* every collected contribution has passed the version, token, key-prefix and
\* signature checks; if any contribution fails one, nothing is built or emitted.
C7_AllOrNothing ==
    IsCoordR2 =>
        /\ last.run.emitted # <<>> \/ last.run.r2_data # EmptyStr \/ cr2 # <<>> =>
              last.run.coll.st = "ok" /\ AllPass
        /\ ~AllPass =>
              /\ last.run.emitted = <<>>
              /\ last.run.r2_data = EmptyStr
              /\ cr2 = <<>>
              /\ last.run.res \notin {"done", "write_failed"}

\* everything was collected, a later contribution fails a check after an
\* earlier one passed, and nothing left the device
C7_Witness ==
    /\ IsCoordR2
    /\ last.run.coll.st = "ok"
    /\ PassesChecks(last.s, 1, last.run.coll.r1_data[1])
    /\ ~AllPass
    /\ last.run.val.keys # <<>>
    /\ last.run.emitted = <<>>
    /\ cr2 = <<>>

(* C8 *)

\* blob is encrypted under another token than token
UnderAnotherToken(blob, token) ==
    IsEnvelope(blob) /\ blob.ct.k # key_derivation_function(token)

\* in the turn of signer i the user supplied a payload under another token first
WrongTokenFirst(i) ==
    /\ last.tries[i] # <<>>
    /\ UnderAnotherToken(last.tries[i][1], get_token(last.s, i))

\* every payload supplied in the turn of signer i is under another token
WrongTokenOnly(i) ==
    /\ last.tries[i] # <<>>
    /\ \A k \in DOMAIN last.tries[i] :
          UnderAnotherToken(last.tries[i][k], get_token(last.s, i))

\* C8, as stated: given a payload under another token for signer i, the
\* round fails as a decryption failure.
C8_WrongTokenAsStated ==
    IsCoordR2 /\ last.via \in {"nfc", "manual"} =>
        \A i \in DOMAIN last.tries :
            WrongTokenFirst(i) => last.run.res = "decrypt_failed"

\* C8, amended: in a STANDARD or EXTENDED session, when every payload
\* supplied in the turn of signer i (the first and, after "Try again?", the
\* second) is under another token, the round fails as a decryption failure;
\* in a NO_ENCRYPTION session such a payload fails the version check; in both
\* cases no descriptor is assembled and nothing is emitted.
C8_WrongTokenOnly ==
    IsCoordR2 /\ last.via # "exit" =>
        \A i \in DOMAIN last.tries :
            WrongTokenOnly(i) =>
                /\ IsEncrypted(last.s) => last.run.res = "decrypt_failed"
                /\ ~IsEncrypted(last.s) => last.run.res = "version"
                /\ ~last.run.assembled
                /\ last.run.r2_data = EmptyStr
                /\ last.run.emitted = <<>>

\* two payloads under another token in one turn of an encrypted session
C8_Witness ==
    /\ IsCoordR2
    /\ last.via \in {"nfc", "manual"}
    /\ IsEncrypted(last.s)
    /\ \E i \in DOMAIN last.tries : WrongTokenOnly(i) /\ Len(last.tries[i]) = 2
    /\ last.run.res = "decrypt_failed"

(* C9 *)

\* the public key recovered from the signature of d over the four lines built
\* from the session token of entry i and the key expression and description of d
RecoveredKey(s, i, d) ==
    verify_recover_pubkey(a2b_base64(d[5]),
                          hash_message(<<BSMS_VERSION, get_token(s, i), d[3], d[4]>>))

\* the signer signed other lines than d holds now, or another key signed
SignedOtherwise(s, i, d) ==
    \/ a2b_base64(d[5]).dg # hash_message(<<BSMS_VERSION, get_token(s, i), d[3], d[4]>>)
    \/ a2b_base64(d[5]).by # d[3].ext.pk

\* C9: coordinator round 2 appends a contribution to the key list only if the
\* key recovered from its signature over the four lines built anew is the key
\* of the declared extended key; a contribution signed by another key or
\* changed after signing is not appended and the round emits nothing.
C9_SignatureBindsContribution ==
    IsCoordR2 =>
        /\ \A i \in DOMAIN last.run.val.keys :
              RecoveredKey(last.s, i, last.run.coll.r1_data[i])
                 = last.run.coll.r1_data[i][3].ext.pk
        /\ \A i \in DOMAIN last.run.coll.r1_data :
              LET d == last.run.coll.r1_data[i]
              IN  Len(d) = 5 /\ ~GetTokenRaises(last.s, i) /\ SignedOtherwise(last.s, i, d) =>
                      /\ i \notin DOMAIN last.run.val.keys
                      /\ last.run.emitted = <<>>

\* a contribution whose description was changed after signing is refused at
\* the signature check
C9_Witness ==
    /\ IsCoordR2
    /\ last.run.res = "signature"
    /\ LET d == last.run.coll.r1_data[last.run.val.at]
       IN  /\ a2b_base64(d[5]).by = d[3].ext.pk
           /\ a2b_base64(d[5]).dg.h[3] = d[3]
           /\ a2b_base64(d[5]).dg.h[4] # d[4]

(* C10 *)

\* token(i): tokens[0] for STANDARD, tokens[i] for EXTENDED, "00" otherwise
SessionToken(s, i) ==
    IF s.et = "1" THEN s.tokens[1]
    ELSE IF s.et = "2" THEN s.tokens[i]
    ELSE T00

\* C10: coordinator round 2 rejects contribution i whenever the token line of
\* the payload differs from token(i): its key is not appended and the round
\* emits nothing.
C10_TokenLineChecked ==
    IsCoordR2 =>
        \A i \in DOMAIN last.run.coll.r1_data :
            LET d == last.run.coll.r1_data[i]
            IN  /\ i <= last.s.N
                /\ Len(d) = 5
                /\ d[2] # SessionToken(last.s, i)
                => /\ i \notin DOMAIN last.run.val.keys
                   /\ last.run.res \notin {"done", "write_failed"}
                   /\ last.run.emitted = <<>>

\* a contribution that differs from the signer's in its token line only is
\* refused at the token check
C10_Witness ==
    /\ IsCoordR2
    /\ last.run.res = "token"
    /\ LET i == last.run.val.at
           d == last.run.coll.r1_data[i]
       IN  /\ d[2] # SessionToken(last.s, i)
           /\ [d EXCEPT ![2] = SessionToken(last.s, i)]
                 = SignerR2Text(SessionToken(last.s, i), sr1[i].blob)

(* C11 *)

\* the last coordinator round 2 went on to the validation loop
Validated == IsCoordR2 /\ last.run.coll.st = "ok"

\* C11, as stated: on every collection path (NFC, auto-collection, manual
\* selection, manual selection after a failed auto-collection) the list of
\* contributions that is validated and assembled holds exactly N payloads.
C11_ExactlyNCollected ==
    Validated => Len(last.run.coll.r1_data) = last.s.N

\* C11, without the fallback: over NFC, by manual selection and by an
\* auto-collection that succeeded, the validated list holds exactly N payloads.
C11_ExactlyNWithoutFallback ==
    Validated /\ (last.via \in {"nfc", "manual"} \/ AutoCollect(last.s, last.dir).st = "ok")
        => Len(last.run.coll.r1_data) = last.s.N

\* an auto-collection failed after it had appended a payload, the manual
\* selection appended N more, all of them passed the validation, and a
\* descriptor over more than N keys was emitted
C11_Witness ==
    /\ IsCoordR2
    /\ last.via = "auto"
    /\ AutoCollect(last.s, last.dir).st = "failed"
    /\ AutoCollect(last.s, last.dir).r1_data # <<>>
    /\ Len(last.run.coll.r1_data) > last.s.N
    /\ Len(last.run.val.keys) > last.s.N
    /\ last.run.res = "done"
    /\ cr2 # <<>>

----------------------------------------------------------------------------
(* Signer round 1 on any token: SpecSignerR1 *)

\* largest number of sessions a device keeps in the model
MaxSessions == 2

\* hex(int(token_int)): "0x" and the k hex digits of the number entered
hex_of_int(k, id) == [pre |-> <<"0", "x">>, n |-> k, id |-> id, hex |-> TRUE]

\* What the user can supply as token (file, NFC, hex entry, decimal entry,
\* unencrypted): the sentinel, 16 and 32 hex characters, a "0x"/"0X" prefix
\* before 14, 16, 30 or 32 hex characters, a number entered in decimal, other
\* lengths, a character that is no hex digit, a sign before 15 hex characters.
TokenInputs ==
    {T00, Tok(16, 1), Tok(32, 1)}
    \cup {[Tok(n, 1) EXCEPT !.pre = <<"0", "X">>] : n \in {14, 16, 30, 32}}
    \cup {hex_of_int(k, 1) : k \in {14, 16, 30, 32}}
    \cup {Tok(8, 1), Tok(15, 1), Tok(64, 1), Tok(0, 1), [Tok(16, 1) EXCEPT !.hex = FALSE],
          [Tok(15, 1) EXCEPT !.pre = <<"-">>], [Tok(31, 1) EXCEPT !.pre = <<"+">>]}

\* a typed key description of len characters
TypedDescription(len) == [len |-> len, txt |-> <<"typed">>]

\* one run of signer round 1 on a device, with any of these tokens, any
\* answers, and the default or a typed description of 80 or 81 characters
DoSignerRound1Any ==
    \E dev \in {1}, token_in \in TokenInputs, a \in R1Answers,
       custom \in {None, TypedDescription(80), TypedDescription(81)} :
        /\ Len(get_signers(dev)) < MaxSessions
        /\ SignerRound1(dev, token_in, a[1], a[2], 0, custom, a[3], a[4])

NextSignerR1 == DoSignerRound1Any

SpecSignerR1 == Init /\ [][NextSignerR1]_vars

----------------------------------------------------------------------------
(* Properties of the persisted sessions *)

IsSignerR1 == last.op = "signer_round1"
IsCoordR1 == last.op = "coordinator_round1"

\* the signer sessions of device dev in the settings value b
SignerSessions(b, dev) == BsmsList(b[dev], BSMS_SIGNER_SETTINGS)

\* the round-1 output f carries token as its token line, readable under token
EmittedUnder(f, token) ==
    /\ f # None
    /\ Len(SignerR2Text(token, f.blob)) = 5
    /\ SignerR2Text(token, f.blob)[2] = token

(* C12 *)

\* C12: a step of signer round 1 changes the persisted settings only by
\* appending the normalised token to the signer sessions of the device, and
\* only in a run that has emitted the signed contribution under that token;
\* a run that ends at the token validation, the prompts, the description
\* check, the key derivation or the file write leaves the settings unchanged.
C12_SessionAfterEmission ==
    [][last'.op = "signer_round1" =>
          /\ last'.res # "saved" => bsms' = bsms
          /\ bsms' # bsms =>
                /\ last'.res = "saved"
                /\ bsms' = [bsms EXCEPT ![last'.dev] =
                              BsmsAdd(@, BSMS_SIGNER_SETTINGS, normalize_token(last'.token_in))]
                /\ EmittedUnder(sr1'[last'.dev], normalize_token(last'.token_in))]_vars

\* a run whose file write failed, on a device that holds the session of an
\* earlier run and nothing else
C12_Witness ==
    /\ IsSignerR1
    /\ last.res = "write_failed"
    /\ Len(SignerSessions(bsms, last.dev)) = 1
    /\ EmittedUnder(sr1[last.dev], SignerSessions(bsms, last.dev)[1])

----------------------------------------------------------------------------
(* Coordinator round 1 on any numbers and answers: SpecCoordR1 *)

\* the answers to the prompts of coordinator round 1:
\* <<ch, et, ok, export, write_ok>>; an answer after the one that ends the
\* run is not asked for
CoordR1Answers ==
    {a \in {"y", "1", "x"} \X {"1", "2", "3", "x"} \X {"y", "x"} \X {"1", "3", "x"} \X BOOLEAN :
        /\ (a[1] = "x" => a[2] = "1")
        /\ (a[1] = "x" \/ a[2] = "x" => a[3] = "y")
        /\ (a[1] = "x" \/ a[2] = "x" \/ a[3] = "x" \/ a[2] = "3" => a[4] = "1")
        /\ (a[1] = "x" \/ a[2] = "x" \/ a[3] = "x" \/ a[2] = "3" \/ a[4] # "1" => a[5])}

\* the numbers entered for N: the ends of the allowed range and the numbers
\* next to them
EnteredN == {1, 2, MAX_SIGNERS, MAX_SIGNERS + 1}
\* the numbers entered for M with N: the ends of 1 .. N and the numbers next to them
EnteredM(N) == {0, 1, N, N + 1}

\* one run of coordinator round 1 with any of these
DoCoordinatorRound1Any ==
    \E N \in EnteredN, a \in CoordR1Answers :
    \E M \in EnteredM(N) :
        /\ Len(CoordSessions) < MaxSessions
        /\ CoordinatorRound1(N, M, a[1], a[2], Len(CoordSessions), a[3], a[4], a[5])

NextCoordR1 == DoCoordinatorRound1Any

SpecCoordR1 == Init /\ [][NextCoordR1]_vars

(* C13 *)
\* Coordinator round 1 changes the stored settings only in a run that ends
\* saved, and then by adding exactly one session, the one whose tokens the run
\* has just emitted (none for NO_ENCRYPTION); a run that fails the check of N
\* or M, is declined at a prompt or cannot write its files leaves the stored
\* settings as they were.
C13_SessionAfterEmission ==
    [][last'.op = "coordinator_round1" =>
          /\ (last'.res # "saved" => bsms' = bsms)
          /\ (bsms' # bsms =>
                /\ last'.res = "saved"
                /\ last'.emitted = last'.tokens
                /\ \E af \in {AF_P2WSH, AF_P2WSH_P2SH}, et \in {"1", "2", "3"} :
                      /\ (et = "3") = (last'.emitted = <<>>)
                      /\ bsms' = [bsms EXCEPT ![Coordinator] =
                                    BsmsAdd(@, BSMS_COORD_SETTINGS,
                                            Session(last'.M, last'.N, af, et, last'.emitted))])]_vars

\* a run that could not write its token files has ended on a device that holds
\* a session of an earlier run, and nothing of the failed run was emitted
C13_Witness ==
    /\ IsCoordR1 /\ last.res = "write_failed"
    /\ last.tokens # <<>> /\ last.emitted = <<>>
    /\ Len(CoordSessions) = 1

(* C14 *)
\* Signer round 2 leaves the stored settings as they were in every run that
\* is rejected (decryption, version, path restrictions, descriptor, own key
\* missing or duplicated, own key differing, address mismatch) or whose
\* enrolment is not approved; the session of the run is removed, and nothing
\* else changed, only in a run that reached the enrolment and was approved.
C14_SessionKeptUnlessEnrolled ==
    [][last'.op = "signer_round2" =>
          IF last'.run.res = "enrol" /\ last'.enrolled
          THEN bsms' = [bsms EXCEPT ![last'.dev] =
                           BsmsDelete(@, BSMS_SIGNER_SETTINGS, last'.index)]
          ELSE bsms' = bsms]_vars

\* a run that reached the enrolment was not approved, and the signer still
\* holds the session of the run
C14_Witness ==
    /\ last.op = "signer_round2" /\ last.run.res = "enrol" /\ ~last.enrolled
    /\ last.index \in DOMAIN get_signers(last.dev)
    /\ get_signers(last.dev)[last.index] = last.token
    /\ wallets[last.dev] = None

----------------------------------------------------------------------------
(* BSMSSettings.add and BSMSSettings.delete under failing saves: SpecSettings *)

\* the most sessions a role's list holds in this specification
MaxStored == 3

\* The value under "bsms" is a dict of lists, and a dict holds references to
\* its lists.  A dict is written here as a map from its keys to the objects
\* they refer to, next to a heap that gives each object its content.  The list
\* that the stored dict holds under key k is the object named k.
Refs(d) == [k \in DOMAIN d |-> k]
\* the object of a list made by the list display [value]
NewList == "new"
\* the value of a dict of references in a heap
Deref(m, heap) == [k \in DOMAIN m |-> heap[m[k]]]
\* dict.copy(): a new dict holding the same references
DictCopy(m) == m

\* a save that backs out by storing an empty dict
SettingsSaveDropping(settings_bsms, orig, heap, save1_ok, save2_ok) ==
    IF save1_ok
    THEN [mem |-> Deref(settings_bsms, heap), flash |-> None, raised |-> FALSE, saves |-> 1]
    ELSE [mem |-> <<>>, flash |-> IF save2_ok THEN <<>> ELSE None, raised |-> TRUE,
          saves |-> 2]

\* BSMSSettings.save(settings, orig) after settings.set("bsms", settings_bsms).
\* mem is the value under "bsms" afterwards, flash the value the second save
\* wrote (None when there was no second save or it failed too), raised
\* whether BSMSOutOfSpace is raised, saves the number of calls of
\* settings.save().
SettingsSave(settings_bsms, orig, heap, save1_ok, save2_ok) ==
    IF save1_ok
    THEN [mem |-> Deref(settings_bsms, heap), flash |-> None, raised |-> FALSE, saves |-> 1]
    ELSE [mem |-> Deref(orig, heap),
          flash |-> IF save2_ok THEN Deref(orig, heap) ELSE None,
          raised |-> TRUE, saves |-> 2]

\* BSMSSettings.add(who, value) on the stored value d
SettingsAdd(d, who, value, save1_ok, save2_ok) ==
    LET settings_bsms == Refs(d)
        orig == DictCopy(settings_bsms)
    IN  IF who \in DOMAIN settings_bsms
        THEN SettingsSave(settings_bsms, orig,
                          [d EXCEPT ![settings_bsms[who]] = Append(@, value)],
                          save1_ok, save2_ok)
        ELSE SettingsSave((who :> NewList) @@ settings_bsms, orig,
                          (NewList :> <<value>>) @@ d,
                          save1_ok, save2_ok)

\* a delete that sets and saves after the try, whether or not it has popped
SettingsDeleteAlwaysSaving(d, who, index, save1_ok, save2_ok) ==
    LET settings_bsms == Refs(d)
        orig == DictCopy(settings_bsms)
    IN  IF who \in DOMAIN settings_bsms /\ index \in 1 .. Len(d[who])
        THEN SettingsSave(settings_bsms, orig,
                          [d EXCEPT ![settings_bsms[who]] = ListPop(@, index)],
                          save1_ok, save2_ok)
        ELSE SettingsSave(settings_bsms, orig, d, save1_ok, save2_ok)

\* BSMSSettings.delete(who, index) on the stored value d; without the role's
\* list, or with an index outside it, nothing is set or saved
SettingsDelete(d, who, index, save1_ok, save2_ok) ==
    LET settings_bsms == Refs(d)
        orig == DictCopy(settings_bsms)
    IN  IF who \in DOMAIN settings_bsms /\ index \in 1 .. Len(d[who])
        THEN SettingsSave(settings_bsms, orig,
                          [d EXCEPT ![settings_bsms[who]] = ListPop(@, index)],
                          save1_ok, save2_ok)
        ELSE [mem |-> d, flash |-> None, raised |-> FALSE, saves |-> 0]

\* the values added under a role in this specification
SettingsValues(who) ==
    IF who = BSMS_SIGNER_SETTINGS THEN {T00, Tok(16, 1)}
    ELSE {Session(1, 2, AF_P2WSH, "3", <<>>), Session(2, 2, AF_P2WSH, "1", <<Tok(16, 1)>>)}

SettingsRoles == {BSMS_SIGNER_SETTINGS, BSMS_COORD_SETTINGS}

\* one call of BSMSSettings.add on device 1
DoSettingsAdd ==
    \E who \in SettingsRoles, save1_ok \in BOOLEAN, save2_ok \in BOOLEAN :
    \E value \in SettingsValues(who) :
    \E run \in {SettingsAdd(bsms[1], who, value, save1_ok, save2_ok)} :
        /\ Len(BsmsList(bsms[1], who)) < MaxStored
        /\ last' = [op |-> "add", who |-> who, value |-> value, before |-> bsms[1],
                    save1_ok |-> save1_ok, run |-> run]
        /\ bsms' = [bsms EXCEPT ![1] = run.mem]
        /\ UNCHANGED <<sr1, cr2, wallets>>

\* one call of BSMSSettings.delete on device 1
DoSettingsDelete ==
    \E who \in SettingsRoles, index \in 1 .. MaxStored + 1,
       save1_ok \in BOOLEAN, save2_ok \in BOOLEAN :
    \E run \in {SettingsDelete(bsms[1], who, index, save1_ok, save2_ok)} :
        /\ last' = [op |-> "delete", who |-> who, index |-> index, before |-> bsms[1],
                    save1_ok |-> save1_ok, run |-> run]
        /\ bsms' = [bsms EXCEPT ![1] = run.mem]
        /\ UNCHANGED <<sr1, cr2, wallets>>

NextSettings ==
    \/ DoSettingsAdd
    \/ DoSettingsDelete

\* a sub-key under "bsms" that this code does not know, with its value
UnknownKey == "x"
UnknownValue == <<"kept">>

\* the settings of device 1 hold nothing under "bsms", or only the unknown
\* sub-key
InitSettings ==
    /\ \E d \in {EmptyDict, UnknownKey :> UnknownValue} :
            bsms = [dev \in Devices |-> IF dev = 1 THEN d ELSE EmptyDict]
    /\ sr1 = [d \in Signers |-> None]
    /\ cr2 = <<>>
    /\ wallets = [d \in Signers |-> None]
    /\ last = [op |-> "init"]

SpecSettings == InitSettings /\ [][NextSettings]_vars

(* C15 *)
\* When the first save fails in BSMSSettings.add or BSMSSettings.delete, the
\* value under "bsms" is afterwards what it was before the call, and a second
\* save that succeeds has written that value, whether or not the role's list
\* existed before the call.
C15_RestoredOnFailedSave ==
    last.op \in {"add", "delete"} /\ last.run.raised =>
        /\ bsms[1] = last.before
        /\ last.run.flash \in {None, last.before}

\* an add under a role without a list, whose first save failed and whose
\* second save succeeded, has written the value of before the call
C15_Witness ==
    /\ last.op = "add" /\ last.run.raised
    /\ last.who \notin DOMAIN last.before
    /\ last.run.flash = last.before /\ bsms[1] = last.before

\* the last round ended on a negative answer at one of its prompts; for signer
\* round 2 that prompt is the approval of the enrolment
Cancelled ==
    \/ last.op \in {"signer_round1", "coordinator_round1"} /\ last.res = "cancel"
    \/ last.op = "coordinator_round2" /\ last.run.res = "cancel"
    \/ last.op = "signer_round2" /\ last.run.res = "enrol" /\ ~last.enrolled

IsHexToken(t, n) == t.hex /\ t.pre = <<>> /\ t.n = n

(* C17 *)
\* Every coordinator session stored by coordinator round 1 has
\* 1 <= M <= N <= 15, and holds N tokens of 32 hex characters each when
\* EXTENDED, one token of 16 hex characters when STANDARD, and no token when
\* NO_ENCRYPTION.
C17_SessionsWellFormed ==
    \A i \in DOMAIN CoordSessions :
        LET s == CoordSessions[i]
        IN  /\ 1 <= s.M /\ s.M <= s.N /\ s.N <= 15
            /\ s.et \in {"1", "2", "3"}
            /\ s.et = "2" => Len(s.tokens) = s.N
                             /\ \A k \in DOMAIN s.tokens : IsHexToken(s.tokens[k], 32)
            /\ s.et = "1" => Len(s.tokens) = 1 /\ IsHexToken(s.tokens[1], 16)
            /\ s.et = "3" => s.tokens = <<>>

\* the coordinator holds an EXTENDED session with the largest N and M and a
\* STANDARD session
C17_Witness ==
    /\ IsCoordR1 /\ last.res = "saved"
    /\ Len(CoordSessions) = 2
    /\ CoordSessions[1].et = "2" /\ CoordSessions[1].N = MAX_SIGNERS
    /\ CoordSessions[1].M = MAX_SIGNERS
    /\ CoordSessions[2].et = "1"

HasBasePrefix(token) == token.pre \in {<<"0", "x">>, <<"0", "X">>}

(* C19 *)
\* Every token stored as a signer session by signer round 1 is the sentinel
\* "00" or is exactly 16 or 32 hex characters without prefix, whatever the
\* user supplied.
C19_StoredTokensCanonical ==
    \A i \in DOMAIN get_signers(1) :
        \/ get_signers(1)[i] = T00
        \/ IsHexToken(get_signers(1)[i], 16)
        \/ IsHexToken(get_signers(1)[i], 32)

\* a number entered in decimal whose hex form has 14 digits was taken as
\* token, and the session stored for it holds those 14 hex characters
C19_Witness ==
    /\ IsSignerR1 /\ last.res = "saved" /\ last.token_in = hex_of_int(14, 1)
    /\ get_signers(1)[Len(get_signers(1))] = Tok(14, 1)

(* C20 *)
\* A token supplied to signer round 1 as "0x" or "0X" followed by 16 or 32
\* hex characters, which includes a number entered in decimal, is accepted as
\* a valid token, and a run on it that ends saved stores those 16 or 32 hex
\* characters.
C20_PrefixedTokenAccepted ==
    IsSignerR1 /\ HasBasePrefix(last.token_in) /\ last.token_in.hex
               /\ last.token_in.n \in {16, 32}
        => /\ last.res # "invalid_token"
           /\ last.res = "saved"
                => get_signers(1)[Len(get_signers(1))] = normalize_token(last.token_in)

\* a number entered in decimal whose hex form has 16 digits was refused as an
\* invalid token, and nothing was stored
C20_Witness ==
    /\ IsSignerR1 /\ last.token_in = hex_of_int(16, 1)
    /\ last.res = "invalid_token"
    /\ get_signers(1) = <<>>

(* C21 *)
\* validate_token accepts the sentinel "00", and accepts any other string
\* exactly when it consists of hex digits only and has 16 or 32 characters.
C21_ValidIffHex ==
    IsSignerR1 =>
        IF last.token_in = T00 THEN last.res # "invalid_token"
        ELSE (last.res # "invalid_token")
                <=> (IsHexToken(last.token_in, 16) \/ IsHexToken(last.token_in, 32))

\* a minus sign before 15 hex characters passed validate_token, and the run
\* failed later when the token was turned into bytes
C21_Witness ==
    /\ IsSignerR1 /\ last.token_in = [Tok(15, 1) EXCEPT !.pre = <<"-">>]
    /\ last.res = "unhex"
    /\ get_signers(1) = <<>>

(* C22 *)
\* Signer round 1 lets a key description of exactly 80 characters pass and
\* rejects one of 81 or more; a run rejected for its description has derived
\* no key and signed nothing, has emitted nothing, and leaves the stored
\* settings as they were.
C22_DescriptionLimit ==
    [][last'.op = "signer_round1" /\ last'.desc # None =>
          /\ (last'.desc.len = 80 => last'.res # "description" /\ last'.derived)
          /\ (last'.desc.len >= 81 => last'.res = "description")
          /\ (last'.res = "description"
                => ~last'.derived /\ sr1' = sr1 /\ bsms' = bsms)]_vars

\* a run with a typed description of 81 characters was rejected on a signer
\* that holds the session and the output of an earlier run
C22_Witness ==
    /\ IsSignerR1 /\ last.desc = TypedDescription(81) /\ last.res = "description"
    /\ Len(get_signers(1)) = 1 /\ sr1[1] # None

----------------------------------------------------------------------------
(* The envelope on its own: SpecEnvelope *)

\* the tokens keys are derived from and macs are made with
EnvelopeTokens == {Tok(16, 1), Tok(16, 2), Tok(32, 1)}

\* the texts put into an envelope: with the BSMS prefix (a round-2 text, a
\* text with another version, the prefix alone) and without it (the empty
\* text, a shorter and a lower-case first line, bytes without structure)
EnvelopeTexts ==
    {coordinator_data_round2("desc", "addr"),
     <<BSMS_VERSION \o <<"1">>, "line">>,
     <<BSMS_MAGIC>>,
     EmptyStr,
     << <<"B", "S", "M">> >>,
     << <<"b", "s", "m", "s">>, "line" >>,
     Garbage}

\* bsms_encrypt of a text under the key of one token, the mac made with a
\* token; the function is applied on its own, not after a round
DoEncrypt ==
    \E tk \in EnvelopeTokens, token \in EnvelopeTokens, pt \in EnvelopeTexts :
    \E key \in {key_derivation_function(tk)} :
        /\ last.op \in {"init", "encrypt", "decrypt"}
        /\ last' = [op |-> "encrypt", key |-> key, token |-> token, pt |-> pt,
                    blob |-> bsms_encrypt(key, token, pt)]
        /\ UNCHANGED <<bsms, sr1, cr2, wallets>>

\* the envelope with the second half of its leading 32 bytes altered
MacTailAltered(blob) ==
    [blob EXCEPT !.mac = [hmac |-> @.hmac, msg |-> @.msg, tail |-> "altered"]]

\* the envelope with its ciphertext altered after the first line's bytes: the
\* counter mode carries the change over to the same bytes of the content
CiphertextAltered(blob) ==
    IF blob.ct.x = EmptyStr THEN blob
    ELSE [blob EXCEPT !.ct.x = <<@[1], "altered">>]

\* bsms_decrypt of what was encrypted, as it is or altered on the way, or of
\* the text left unencrypted, under the key of any token
DoDecrypt ==
    /\ last.op = "encrypt"
    /\ \E tk \in EnvelopeTokens,
          blob \in {last.blob, PlainBlob(last.pt), MacTailAltered(last.blob),
                    CiphertextAltered(last.blob)} :
       \E key \in {key_derivation_function(tk)} :
            last' = [op |-> "decrypt", key |-> key, sealed |-> last.key, pt |-> last.pt,
                     orig |-> last.blob, blob |-> blob, out |-> bsms_decrypt(key, blob)]
    /\ UNCHANGED <<bsms, sr1, cr2, wallets>>

NextEnvelope ==
    \/ DoEncrypt
    \/ DoDecrypt

SpecEnvelope == Init /\ [][NextEnvelope]_vars

(* C23 *)
\* For every key derived from a token other than "00" and every text that
\* begins with "BSMS", bsms_decrypt under that key of what bsms_encrypt made
\* under it returns the text.
C23_EnvelopeRoundTrip ==
    last.op = "decrypt" /\ last.blob = last.orig /\ last.key = last.sealed
                        /\ TextStartsWith(last.pt, BSMS_MAGIC)
        => last.out = last.pt

\* the round-2 text of a coordinator came back from its envelope
C23_Witness ==
    /\ last.op = "decrypt" /\ last.blob = last.orig /\ last.key = last.sealed
    /\ last.pt = coordinator_data_round2("desc", "addr")
    /\ last.out = last.pt

----------------------------------------------------------------------------
(* bsms_decrypt and the rounds that call it: SpecDecrypting *)

\* from the state after coordinator round 2 of a setup: the function on its
\* own, coordinator round 2 run again on any contribution, and signer round 2
\* on any payload
NextDecrypting ==
    \/ DoEncrypt
    \/ DoDecrypt
    \/ DoCoordinatorRound2Any
    \/ DoSignerRound2Any

SpecDecrypting == InitSignerR2 /\ [][NextDecrypting]_vars

\* the bytes the cipher leaves of blob under key, before they are decoded
DecryptedContent(key, blob) ==
    IF IsEnvelope(blob) THEN CtrDecrypt(key, IvOf(blob.mac), blob.ct) ELSE Garbage

(* C24 *)
\* bsms_decrypt returns the empty string whenever the decrypted content does
\* not decode or does not start with "BSMS"; coordinator round 2 of an
\* encrypted session takes up, on every collection path, only texts that
\* start with "BSMS"; and signer round 2 under a token other than "00" ends
\* as a decryption failure, and enrols nothing, on every payload whose
\* decrypted content does not start with "BSMS".
C24_FailedDecryptionIsFailure ==
    /\ last.op = "decrypt"
          /\ ~TextStartsWith(DecryptedContent(last.key, last.blob), BSMS_MAGIC)
          => last.out = EmptyStr
    /\ IsCoordR2 /\ last.s.et # "3"
          => \A i \in DOMAIN last.run.coll.r1_data :
                TextStartsWith(last.run.coll.r1_data[i], BSMS_MAGIC)
    /\ IsSignerR2 /\ last.token # T00
          /\ ~TextStartsWith(
                 DecryptedContent(key_derivation_function(last.token), last.blob),
                 BSMS_MAGIC)
          => last.run.res = "decrypt" /\ ~last.enrolled

\* signer round 2 was handed a payload sealed under another token and ended
\* as a decryption failure
C24_Witness ==
    /\ IsSignerR2 /\ last.token # T00
    /\ IsEnvelope(last.blob)
    /\ DecryptedContent(key_derivation_function(last.token), last.blob) = Garbage
    /\ last.run.res = "decrypt" /\ wallets[last.dev] = None

(* C25 *)
\* Signer round 2 rejects as a version mismatch every payload whose first
\* line is not exactly "BSMS 1.0", and coordinator round 2 assembles nothing
\* when one of the texts it collected has another first line.
C25_VersionLineExact ==
    /\ IsSignerR2 /\ PayloadText # EmptyStr /\ PayloadText[1] # BSMS_VERSION
          => last.run.res = "version"
    /\ IsCoordR2 /\ last.run.coll.st = "ok"
          /\ (\E i \in DOMAIN last.run.coll.r1_data :
                 last.run.coll.r1_data[i][1] # BSMS_VERSION)
          => last.run.val.st # "ok" /\ ~last.run.assembled

\* a signer has enrolled the wallet of a payload whose first line is
\* "BSMS 1.01"
C25_Witness ==
    /\ IsSignerR2 /\ PayloadText # EmptyStr
    /\ PayloadText[1] = BSMS_VERSION \o <<"1">>
    /\ last.run.res = "enrol" /\ last.enrolled
    /\ wallets[last.dev] # None

(* C26 *)
\* Signer round 2 rejects every payload whose third line is not exactly
\* "/0/*,/1/*" before the descriptor is parsed and before the master secret
\* is used to derive a key: nothing of the descriptor is kept and nothing is
\* enrolled; when the payload has four lines and passes the version test, the
\* rejection is the one for the path restrictions.
C26_PathRestrictionsExact ==
    IsSignerR2 /\ Len(PayloadText) >= 3 /\ PayloadText[3] # ALLOWED_PATH_RESTRICTIONS
        => /\ last.run.res \in {"version", "split", "path_restrictions"}
           /\ VersionOk(PayloadText) /\ Len(PayloadText) = 4
                 => last.run.res = "path_restrictions"
           /\ last.run.desc = None /\ last.run.keys = <<>>
           /\ ~last.run.sv /\ ~last.enrolled

\* a payload that is the coordinator's but for its third line, "/0/*", was
\* rejected for its path restrictions
C26_Witness ==
    /\ IsSignerR2 /\ PayloadText = [CoordText EXCEPT ![3] = "/0/*"]
    /\ last.run.res = "path_restrictions"
    /\ wallets[last.dev] = None

(* C27 *)
\* Coordinator round 2 leaves the stored settings of every device as they
\* were, however it ends; the session it was started from is afterwards still
\* stored under the same menu entry with the same content, so that the round
\* can be started from it again.
C27_CoordR2KeepsSettings ==
    [][last'.op = "coordinator_round2" =>
          /\ bsms' = bsms
          /\ last'.index \in DOMAIN BsmsList(bsms'[Coordinator], BSMS_COORD_SETTINGS)
          /\ BsmsList(bsms'[Coordinator], BSMS_COORD_SETTINGS)[last'.index] = last'.s]_vars

\* coordinator round 2 has exported its payload to every signer, and its
\* session is still stored
C27_Witness ==
    /\ IsCoordR2 /\ last.run.res = "done" /\ cr2 # <<>>
    /\ CoordSessions = <<last.s>>

\* the sub-keys of the settings value d other than who, with their values
OtherKeys(d, who) == [k \in DOMAIN d \ {who} |-> d[k]]

(* C28 *)
\* BSMSSettings.add and BSMSSettings.delete for one role leave every other
\* sub-key under "bsms" (the list of the other role, an unknown sub-key) with
\* the value it had, and add no sub-key but the role's, both in the value
\* stored afterwards and in what a second save wrote.
C28_OnlyOwnRoleChanged ==
    last.op \in {"add", "delete"} =>
        /\ OtherKeys(bsms[1], last.who) = OtherKeys(last.before, last.who)
        /\ last.run.flash # None
              => OtherKeys(last.run.flash, last.who) = OtherKeys(last.before, last.who)

\* a signer session was deleted from settings that also hold a coordinator
\* session and an unknown sub-key, and both of these are as before
C28_Witness ==
    /\ last.op = "delete" /\ last.who = BSMS_SIGNER_SETTINGS
    /\ Len(BsmsList(last.before, BSMS_SIGNER_SETTINGS))
          = Len(BsmsList(bsms[1], BSMS_SIGNER_SETTINGS)) + 1
    /\ UnknownKey \in DOMAIN bsms[1] /\ bsms[1][UnknownKey] = UnknownValue
    /\ BsmsList(bsms[1], BSMS_COORD_SETTINGS) # <<>>
    /\ BsmsList(bsms[1], BSMS_COORD_SETTINGS) = BsmsList(last.before, BSMS_COORD_SETTINGS)

----------------------------------------------------------------------------
(* One run of any round from the state after coordinator round 2: SpecFailures *)

NextFailures ==
    \/ last.op = "init" /\ DoSignerRound1Any
    \/ last.op = "init" /\ DoCoordinatorRound1Any
    \/ DoCoordinatorRound2Any
    \/ DoSignerRound2Any

SpecFailures == InitSignerR2 /\ [][NextFailures]_vars

IsRound ==
    last.op \in {"signer_round1", "coordinator_round1", "coordinator_round2", "signer_round2"}

\* how the last round ended
LastRes ==
    IF last.op \in {"coordinator_round2", "signer_round2"} THEN last.run.res ELSE last.res

\* the last round ended by an assertion or another exception that nothing in
\* the round catches: a check of a token, a number, a description, a line, a
\* key, a signature or an address failed
EndedByException ==
    LastRes \in {"invalid_token", "description", "unhex", "bad_N", "bad_M",
                 "index", "version", "split", "token", "key_prefix", "key_decode",
                 "signature", "decrypt", "path_restrictions", "descriptor",
                 "duplicate_self", "self_missing", "own_key", "address_mismatch"}

\* an error was raised inside the last round and caught there: the file
\* write failed, or the auto-collection of coordinator round 2 failed
CaughtInside ==
    \/ LastRes = "write_failed"
    \/ IsCoordR2 /\ last.via = "auto" /\ AutoCollect(last.s, last.dir).st # "ok"

\* the one story of the wrapper for the last round
FailureStory == [title |-> "FAILURE", round |-> nice_name(last.op), error |-> LastRes]

R1Token == normalize_token(last.token_in)

(* C30 *)
\* What signer round 1 emits is an envelope exactly when its token is not the
\* sentinel "00": with "00" it is the five-line text as it is, with the token
\* line "00"; with another token it is an envelope that opens under the key
\* of the token to five lines with that token line.
C30_EncryptedIffNotSentinel ==
    IsSignerR1 /\ last.res = "saved" =>
        /\ IsEnvelope(sr1[last.dev].blob) <=> R1Token # T00
        /\ R1Token = T00
              => /\ sr1[last.dev].blob = PlainBlob(BlobText(sr1[last.dev].blob))
                 /\ Len(BlobText(sr1[last.dev].blob)) = 5
                 /\ BlobText(sr1[last.dev].blob)[1] = BSMS_VERSION
                 /\ BlobText(sr1[last.dev].blob)[2] = T00
        /\ R1Token # T00
              => /\ Len(SignerR2Text(R1Token, sr1[last.dev].blob)) = 5
                 /\ SignerR2Text(R1Token, sr1[last.dev].blob)[2] = R1Token

\* a run with the token "00" has emitted its five lines unencrypted, after a
\* run with another token on the same device
C30_Witness ==
    /\ IsSignerR1 /\ last.res = "saved" /\ last.token_in = T00
    /\ ~IsEnvelope(sr1[last.dev].blob)
    /\ Len(BlobText(sr1[last.dev].blob)) = 5
    /\ Len(get_signers(last.dev)) = 2 /\ get_signers(last.dev)[1] # T00

(* C31 *)
\* A coordinator round 2 that has assembled its payload holds an encryption
\* key for every token the export looks up, on every collection path; and
\* one that ended as done has emitted the same four-line payload once per
\* token: unencrypted once for NO_ENCRYPTION, in one envelope that opens under
\* the key of the shared token for STANDARD, and for EXTENDED in N envelopes
\* of which the i-th opens under the key of tokens[i].
C31_OneEnvelopePerToken ==
    IsCoordR2 =>
        /\ last.run.assembled => ExportTokens(last.s) \subseteq last.run.coll.keymap
        /\ last.run.res = "done" =>
              /\ Len(last.run.r2_data) = 4
              /\ cr2 = last.run.emitted
              /\ Len(cr2) = (IF last.s.et = "2" THEN last.s.N ELSE 1)
              /\ \A i \in DOMAIN cr2 :
                    IF last.s.et = "3" THEN cr2[i].blob = PlainBlob(last.run.r2_data)
                    ELSE /\ IsEnvelope(cr2[i].blob)
                         /\ last.s.tokens[i] # T00
                         /\ bsms_decrypt(key_derivation_function(last.s.tokens[i]),
                                         cr2[i].blob) = last.run.r2_data

\* an EXTENDED session of two signers was collected by auto-collection and
\* exported in two envelopes under two different tokens
C31_Witness ==
    /\ IsCoordR2 /\ last.run.res = "done" /\ last.via = "auto"
    /\ last.s.et = "2" /\ last.s.N = 2 /\ Len(cr2) = 2
    /\ last.s.tokens[1] # last.s.tokens[2]
    /\ bsms_decrypt(key_derivation_function(last.s.tokens[2]), cr2[2].blob) = last.run.r2_data
    /\ bsms_decrypt(key_derivation_function(last.s.tokens[1]), cr2[2].blob) = EmptyStr

\* the blobs supplied in the turn of signer i of the last coordinator round 2
\* that do not open under the key of token(i)
FailsToOpen(i, k) ==
    bsms_decrypt(key_derivation_function(get_token(last.s, i)), last.tries[i][k]) = EmptyStr

(* C32 *)
\* In coordinator round 2 over NFC or by manual selection, the turn of a
\* signer reads at most two payloads and never more than the user supplied,
\* and a second one only after the first failed to decrypt, so that the
\* collection ends after at most 2N reads; in an encrypted session, when the
\* first payload of a turn fails to decrypt and the user supplies no second
\* one, or when the second fails as well, the round ends as a decryption
\* failure with no descriptor assembled, and the step emits nothing.
C32_OneRetryPerSigner ==
    [][last'.op = "coordinator_round2" /\ last'.via \in {"nfc", "manual"} =>
          /\ Len(last'.run.coll.reads) <= last'.s.N
          /\ \A i \in DOMAIN last'.run.coll.reads :
                /\ last'.run.coll.reads[i] <= 2
                /\ last'.run.coll.reads[i] <= Len(last'.tries[i])
                /\ last'.run.coll.reads[i] = 2
                      => IsEncrypted(last'.s) /\ FailsToOpen(i, 1)'
          /\ \A i \in DOMAIN last'.run.coll.reads :
                /\ IsEncrypted(last'.s) /\ last'.tries[i] # <<>> /\ FailsToOpen(i, 1)'
                /\ (Len(last'.tries[i]) = 1 \/ FailsToOpen(i, 2)')
                => /\ last'.run.res = "decrypt_failed"
                   /\ ~last'.run.assembled
                   /\ last'.run.r2_data = EmptyStr
                   /\ last'.run.emitted = <<>>
                   /\ cr2' = cr2]_vars

\* the user was ready to supply a third payload, one that opens, after two
\* that did not: two were read and the round ended as a decryption failure
C32_Witness ==
    /\ IsCoordR2 /\ last.via \in {"nfc", "manual"} /\ IsEncrypted(last.s)
    /\ \E i \in DOMAIN last.tries :
          /\ Len(last.tries[i]) = 3
          /\ FailsToOpen(i, 1) /\ FailsToOpen(i, 2) /\ ~FailsToOpen(i, 3)
          /\ last.run.coll.reads[i] = 2
    /\ last.run.res = "decrypt_failed" /\ cr2 = <<>>

\* the key expressions of the texts the last coordinator round 2 collected
CollectedKeys ==
    [i \in DOMAIN last.run.coll.r1_data |->
        IF Len(last.run.coll.r1_data[i]) >= 3
        THEN parse_key_orig_info(last.run.coll.r1_data[i][3])
        ELSE None]

\* two of the collected contributions carry the same XFP or the same extended key
SameSignerTwice ==
    \E i, j \in DOMAIN CollectedKeys :
        /\ i < j /\ CollectedKeys[i] # None /\ CollectedKeys[j] # None
        /\ \/ CollectedKeys[i].koi.xfp = CollectedKeys[j].koi.xfp
           \/ CollectedKeys[i].ext = CollectedKeys[j].ext

(* C33 *)
\* Coordinator round 2 rejects the round when two of the contributions it
\* collected carry the same XFP or the same extended key: no descriptor is
\* assembled and nothing is emitted; and the descriptor of a payload it
\* emits lists no XFP and no extended key twice.
C33_NoSignerTwice ==
    IsCoordR2 =>
        /\ SameSignerTwice => ~last.run.assembled /\ last.run.emitted = <<>>
        /\ last.run.assembled =>
              \A i, j \in DOMAIN last.run.r2_data[2].keys :
                  i # j => /\ last.run.r2_data[2].keys[i].xfp # last.run.r2_data[2].keys[j].xfp
                           /\ last.run.r2_data[2].keys[i].ext # last.run.r2_data[2].keys[j].ext

\* the output of signer 1 was supplied in both turns of a STANDARD session,
\* and the round has exported a descriptor that lists its key twice
C33_Witness ==
    /\ IsCoordR2 /\ last.s.et = "1" /\ last.s.N = 2 /\ last.via = "manual"
    /\ last.tries = <<(<<sr1[1].blob>>), (<<sr1[1].blob>>)>>
    /\ last.run.res = "done" /\ cr2 # <<>>
    /\ last.run.r2_data[2].keys[1] = last.run.r2_data[2].keys[2]

(* C34 *)
\* When coordinator round 2 has finished collecting, on any path, every
\* position i of the collected list has a token, and the text at position i
\* was obtained under token(i), the token the validation loop compares it
\* with.
C34_PositionMatchesToken ==
    IsCoordR2 /\ last.run.coll.st = "ok" =>
        \A i \in DOMAIN last.run.coll.r1_data :
            /\ ~GetTokenRaises(last.s, i)
            /\ last.run.coll.under[i] = get_token(last.s, i)

\* In an EXTENDED session the auto-collection took up the file of the first
\* token and failed at the second; the manual selection then supplied both
\* signers' outputs, and the validation loop compared the output obtained
\* under the first token with the second token.
C34_Witness ==
    /\ IsCoordR2 /\ last.via = "auto" /\ last.s.et = "2" /\ last.s.N = 2
    /\ last.run.coll.st = "ok"
    /\ Len(last.run.coll.r1_data) = 3
    /\ last.run.coll.under[2] = get_token(last.s, 1)
    /\ get_token(last.s, 2) # get_token(last.s, 1)
    /\ last.run.coll.r1_data[2] = SignerR2Text(get_token(last.s, 1), sr1[1].blob)
    /\ last.run.val.st = "token" /\ last.run.val.at = 2
    /\ last.run.emitted = <<>>

\* the leading 32 bytes of blob are the HMAC, under the key derived from
\* key, of some token and text
MacOf(key, blob, text) ==
    \E token \in EnvelopeTokens : blob.mac = msg_auth_code(hmac_key(key), token, text)

(* C35 *)
\* bsms_decrypt accepts an envelope exactly when the content decrypted under
\* the key, with the first 16 of the leading 32 bytes as IV, begins with
\* "BSMS", and then returns that content, whether or not the leading 32 bytes
\* are the HMAC of a token and that content: an envelope whose ciphertext or
\* whose second 16 bytes were altered is accepted like an unaltered one.
C35_NoMacVerification ==
    last.op = "decrypt" /\ IsEnvelope(last.blob) =>
        /\ last.out = IF TextStartsWith(DecryptedContent(last.key, last.blob), BSMS_MAGIC)
                      THEN DecryptedContent(last.key, last.blob)
                      ELSE EmptyStr
        /\ last.key = last.sealed /\ TextStartsWith(last.pt, BSMS_MAGIC)
              => /\ last.blob = MacTailAltered(last.orig) => last.out = last.pt
                 /\ last.blob = CiphertextAltered(last.orig)
                       => last.out = <<last.pt[1], "altered">>

\* an envelope whose ciphertext was altered after its first line was
\* accepted with the altered content, which its leading 32 bytes are not the
\* HMAC of
C35_Witness ==
    /\ last.op = "decrypt" /\ IsEnvelope(last.blob)
    /\ last.pt = coordinator_data_round2("desc", "addr")
    /\ last.out = <<BSMS_VERSION, "altered">>
    /\ last.blob = CiphertextAltered(last.orig) /\ last.blob # last.orig
    /\ ~MacOf(last.key, last.blob, last.out)
    /\ MacOf(last.key, last.blob, last.pt)

\* every key of the descriptor line is followed by the wildcard w
AllWild(line, w) == \A i \in DOMAIN line.keys : line.keys[i].wild = w

\* the last signer round 2 read four lines that pass the tests before the
\* descriptor is looked at
ReachedDescriptor ==
    /\ IsSignerR2 /\ Len(PayloadText) = 4
    /\ VersionOk(PayloadText) /\ PathRestrictionsOk(PayloadText[3])

DeletedFrom == BsmsList(last.before, last.who)
LeftAfter == BsmsList(bsms[1], last.who)

\* the index of the last delete lies inside the role's list
IndexInside == last.who \in DOMAIN last.before /\ last.index \in 1 .. Len(DeletedFrom)

(* C37 *)
\* BSMSSettings.delete(who, index) with an index inside the role's list sets
\* and saves the settings, and the list is afterwards one shorter: the
\* sessions before the index are where they were and those after it have
\* moved up by one; with an index past the end of the list, or without a list
\* for the role, the settings are as before and save is not called.
C37_DeleteExactlyOne ==
    last.op = "delete" =>
        /\ IndexInside =>
              /\ last.run.saves >= 1
              /\ Len(LeftAfter) = Len(DeletedFrom) - 1
              /\ \A j \in 1 .. Len(LeftAfter) :
                    LeftAfter[j] = IF j < last.index THEN DeletedFrom[j] ELSE DeletedFrom[j + 1]
        /\ ~IndexInside =>
              /\ bsms[1] = last.before
              /\ last.run.saves = 0 /\ ~last.run.raised /\ last.run.flash = None

\* the middle one of three signer sessions was deleted and the two others
\* are left in their order; the sessions differ
C37_Witness ==
    /\ last.op = "delete" /\ last.who = BSMS_SIGNER_SETTINGS
    /\ Len(DeletedFrom) = 3 /\ last.index = 2
    /\ DeletedFrom[1] # DeletedFrom[3]
    /\ LeftAfter = <<DeletedFrom[1], DeletedFrom[3]>>
    /\ last.run.saves = 1

----------------------------------------------------------------------------
(* The signer sessions of one device over its rounds and deletions: SpecLifecycle *)

\* the tokens the user of device 1 supplies to signer round 1; the last one
\* is rejected
LifecycleTokens == {T00, Tok(16, 1), Tok(32, 2), Tok(15, 1)}

\* user_delete_signer_settings: the Delete entry of the session at index
UserDeleteSigner(dev, index) ==
    /\ index \in DOMAIN get_signers(dev)
    /\ bsms' = [bsms EXCEPT ![dev] = BsmsDelete(@, BSMS_SIGNER_SETTINGS, index)]
    /\ last' = [op |-> "user_delete", dev |-> dev, index |-> index]
    /\ UNCHANGED <<sr1, cr2, wallets>>

\* a round-2 text for device 1 under token: 1-of-2 over the key of the
\* device and a key of another master secret
LifecycleText(token) ==
    LET Key(d) == ContributionKey(SignerR2Text(token,
                      SignerR1Data(d, token, Path(48, 0, 2), DefaultDescription("1", 0))))
    IN  R2Data(Session(1, 2, AF_P2WSH, "3", <<>>), <<Key(1), Key(Foreign)>>)

DoSignerRound1Session ==
    \E token_in \in LifecycleTokens, ok \in {"y", "x"}, write_ok \in BOOLEAN :
        /\ Len(get_signers(1)) < MaxSessions
        /\ SignerRound1(1, token_in, ok, "1", 0, None, "1", write_ok)

DoUserDeleteSigner ==
    \E index \in 1 .. MaxSessions : UserDeleteSigner(1, index)

\* round 2 from the menu entry of a stored session, on the text for its
\* token, on a text for another token and on the text left unencrypted
DoSignerRound2Session ==
    \E index \in 1 .. MaxSessions, enrol_ok \in BOOLEAN :
        /\ index \in DOMAIN get_signers(1)
        /\ \E blob \in {Sealed(get_signers(1)[index], LifecycleText(get_signers(1)[index])),
                        Sealed(Tok(16, 9), LifecycleText(Tok(16, 9))),
                        PlainBlob(LifecycleText(get_signers(1)[index]))} :
              SignerRound2(1, index, blob, enrol_ok)

NextLifecycle ==
    \/ DoSignerRound1Session
    \/ DoUserDeleteSigner
    \/ DoSignerRound2Session

SpecLifecycle == Init /\ [][NextLifecycle]_vars

\* list l without its entry at index
Without(l, index) == [j \in 1 .. Len(l) - 1 |-> IF j < index THEN l[j] ELSE l[j + 1]]

====
